---- MODULE Spec2Model ----
(***************************************************************************)
(* Orchestration engine of kody-w/AIGame (src/function_app.py): one HTTP   *)
(* request handled by main and Assistant.get_response, with the dispatch   *)
(* loop, the response codec, identity resolution and the memory snapshots. *)
(*                                                                         *)
(* Texts (Python str) are sequences of tokens.  A token is a piece of text *)
(* the code never looks inside: a word, one blank, the game-data           *)
(* delimiter, a whole JSON document, a GUID.  Python values that may be    *)
(* None are records [some, v].                                             *)
(***************************************************************************)
EXTENDS Integers, Sequences, FiniteSets, TLC

\* ------------------------------------------------------------------ bounds
\* Cap on the model calls of one turn (the loop of get_response has no such
\* cap of its own; the cap only keeps the state space finite).
MaxModelCalls == 4

\* Cap on the calls of agent.perform made on one memory key in a behaviour.
MaxPerforms == 3

\* ------------------------------------------------------- program constants
DEFAULT_USER_GUID == "c0p110t0-aaaa-bbbb-cccc-123456789abc"
DefaultMaxRetries == 3
WS == " "
DELIM == "|||GAME_DATA|||"

GUID_A == "123e4567-e89b-12d3-a456-426614174000"
GUID_B == "9F8E7D6C-5B4A-4321-8765-0FEDCBA98765"

\* ------------------------------------------------------------ Python values
NoneV == [some |-> FALSE, v |-> <<>>]
Some(t) == [some |-> TRUE, v |-> t]

\* JSON scalars carry their type; objects are maps from keys to scalars.
Str(s) == [t |-> "str", v |-> s]
Bool(b) == [t |-> "bool", v |-> IF b THEN "true" ELSE "false"]
Num(n) == [t |-> "num", v |-> n]
Null == [t |-> "null", v |-> ""]
EmptyMap == [k \in {} |-> Null]
Obj(f) == [kind |-> "obj", f |-> f]
List1 == [kind |-> "list", f |-> EmptyMap]
JsonErr == [kind |-> "err", f |-> EmptyMap]

\* Python truthiness, == True and == 'text' on JSON scalars.
Truthy(x) ==
    CASE x.t = "str" -> x.v # ""
      [] x.t = "bool" -> x.v = "true"
      [] x.t = "num" -> x.v # "0"
      [] OTHER -> FALSE
EqTrue(x) == (x.t = "bool" /\ x.v = "true") \/ (x.t = "num" /\ x.v = "1")
EqStr(x, s) == x.t = "str" /\ x.v = s

\* dict.get(key): the value, or None (here Null) when the key is absent.
Get(m, k) == IF k \in DOMAIN m THEN m[k] ELSE Null

\* ------------------------------------------------------------ JSON documents
J_EMPTY == "{}"
J_EMPTY_SP == "{ }"
J_EVENT == "{\"event\": \"boss_encounter\"}"
J_EVENT_COMPACT == "{\"event\":\"boss_encounter\"}"
J_SUCCESS == "{\"status\": \"success\"}"
J_INCOMPLETE == "{\"status\": \"incomplete\"}"
J_ERROR == "{\"error\": \"Unknown action\"}"
J_ERROR_EMPTY == "{\"error\": \"\"}"
J_REQUIRES == "{\"requires_additional_action\": true}"
J_REQUIRES_STR == "{\"requires_additional_action\": \"true\"}"
J_LIST == "[1]"
J_WORLD_INIT == "{\"event\": \"world_init\", \"status\": \"ready\"}"
J_ARGS_ACTION == "{\"action\": \"get_world_state\"}"
J_ARGS_NULL == "{\"action\": null}"
J_ARGS_GUID == "{\"action\": \"get_world_state\", \"user_guid\": \"9F8E7D6C-5B4A-4321-8765-0FEDCBA98765\"}"

\* What json.loads yields on each document.
\* A JSON object with the delimiter inside a string value,
\* {"note": "a|||GAME_DATA|||b"}: three tokens of the text.
J_NOTE == <<"{\"note\": \"a", DELIM, "b\"}">>
NoteObj == Obj([note |-> Str("a|||GAME_DATA|||b")])

JsonTable ==
    [d \in {J_EMPTY, J_EMPTY_SP, J_EVENT, J_EVENT_COMPACT, J_SUCCESS,
            J_INCOMPLETE, J_ERROR, J_ERROR_EMPTY, J_REQUIRES, J_REQUIRES_STR,
            J_LIST, J_WORLD_INIT, J_ARGS_ACTION, J_ARGS_NULL, J_ARGS_GUID} |->
        CASE d \in {J_EMPTY, J_EMPTY_SP} -> Obj(EmptyMap)
          [] d \in {J_EVENT, J_EVENT_COMPACT} -> Obj([event |-> Str("boss_encounter")])
          [] d = J_SUCCESS -> Obj([status |-> Str("success")])
          [] d = J_INCOMPLETE -> Obj([status |-> Str("incomplete")])
          [] d = J_ERROR -> Obj([error |-> Str("Unknown action")])
          [] d = J_ERROR_EMPTY -> Obj([error |-> Str("")])
          [] d = J_REQUIRES -> Obj([requires_additional_action |-> Bool(TRUE)])
          [] d = J_REQUIRES_STR -> Obj([requires_additional_action |-> Str("true")])
          [] d = J_LIST -> List1
          [] d = J_WORLD_INIT ->
                Obj([event |-> Str("world_init"), status |-> Str("ready")])
          [] d = J_ARGS_ACTION -> Obj([action |-> Str("get_world_state")])
          [] d = J_ARGS_NULL -> Obj([action |-> Null])
          [] OTHER -> Obj([action |-> Str("get_world_state"), user_guid |-> Str(GUID_B)])]

\* The documents json.dumps writes (default separators).
CanonicalJson == DOMAIN JsonTable \ {J_EMPTY_SP, J_EVENT_COMPACT}

\* ------------------------------------------------------------------- texts
RECURSIVE lstrip(_)
lstrip(s) == IF s # <<>> /\ Head(s) = WS THEN lstrip(Tail(s)) ELSE s

RECURSIVE rstrip(_)
rstrip(s) ==
    IF s # <<>> /\ s[Len(s)] = WS THEN rstrip(SubSeq(s, 1, Len(s) - 1)) ELSE s

\* str.strip()
strip(s) == rstrip(lstrip(s))

\* Index of the first delimiter at or after position i, 0 when there is none.
RECURSIVE find(_, _)
find(s, i) ==
    IF i > Len(s) THEN 0 ELSE IF s[i] = DELIM THEN i ELSE find(s, i + 1)

\* content.split("|||GAME_DATA|||"): number of parts and the first two parts.
split(s) ==
    LET i == find(s, 1)
        j == IF i = 0 THEN 0 ELSE find(s, i + 1)
    IN  IF i = 0
        THEN [n |-> 1, p0 |-> s, p1 |-> <<>>]
        ELSE [n |-> IF j = 0 THEN 2 ELSE 3,
              p0 |-> SubSeq(s, 1, i - 1),
              p1 |-> SubSeq(s, i + 1, IF j = 0 THEN Len(s) ELSE j - 1)]

\* json.loads(text): leading and trailing blanks are skipped, and the rest
\* must be one document.
json_loads(s) ==
    LET b == strip(s)
    IN  IF Len(b) = 1 /\ b[1] \in DOMAIN JsonTable THEN JsonTable[b[1]]
        ELSE IF b = J_NOTE THEN NoteObj
        ELSE JsonErr

\* Variant: str(value), the Python rendering of the value, not json.dumps.
json_dumps_Repr(x) ==
    IF x = Obj(EmptyMap) THEN <<J_EMPTY>> ELSE <<"{'event': 'boss_encounter'}">>

\* json.dumps(value)
json_dumps(x) ==
    IF x = NoteObj THEN J_NOTE
    ELSE << CHOOSE d \in CanonicalJson : JsonTable[d] = x >>

\* "\n".join(logs)
RECURSIVE join(_)
join(logs) ==
    IF logs = <<>> THEN <<>>
    ELSE IF Len(logs) = 1 THEN logs[1]
    ELSE logs[1] \o <<"\n">> \o join(Tail(logs))


\* --------------------------------------------------------- fixed narratives
MSG_WORLD_INIT == <<"Game world initialized. Your adventure awaits!">>
MSG_UNAVAILABLE == <<"Service temporarily unavailable. Please try again later.">>
MSG_ERROR_RETRY == <<"An error occurred. Please try again.">>
MSG_CRITICAL == <<"A critical error occurred. Please try again.">>
MSG_AGENT_OK == <<"Agent completed successfully">>

\* ----------------------------------------------------------- Python values
\* A Python value of a request or of a tool: None, a str, a number, a bool or
\* a dict; v is the text str() gives for it.
PyNone == [t |-> "none", v |-> <<"None">>]
PyStr(s) == [t |-> "str", v |-> s]
PyNum(s) == [t |-> "num", v |-> s]
PyDict(s) == [t |-> "dict", v |-> s]
PyBool(s) == [t |-> "bool", v |-> s]

\* str(x)
py_str(x) == x.v

\* A conversation-history entry as the request carries it: null, a value that
\* is not a map, or a map whose role and content may be missing.
NullEntry == [kind |-> "none", has_role |-> FALSE, role |-> "",
              has_content |-> FALSE, content |-> PyNone]
ValueEntry(x) == [kind |-> "value", has_role |-> FALSE, role |-> "",
                  has_content |-> FALSE, content |-> x]
Turn(r, c) == [kind |-> "dict", has_role |-> TRUE, role |-> r,
               has_content |-> TRUE, content |-> c]
TurnNoRole(c) == [kind |-> "dict", has_role |-> FALSE, role |-> "",
                  has_content |-> TRUE, content |-> c]
TurnNoContent(r) == [kind |-> "dict", has_role |-> TRUE, role |-> r,
                     has_content |-> FALSE, content |-> PyNone]

\* A message of the list sent to the model.
Message(r, n, c) == [role |-> r, name |-> n, content |-> c]

\* Variant: content that is not a str becomes the empty string.
ensure_string_content_Blank(message) ==
    IF message.kind = "none" THEN Message("user", "", PyStr(<<>>))
    ELSE IF message.kind # "dict"
    THEN Message("user", "", PyStr(py_str(message.content)))
    ELSE Message(IF message.has_role THEN message.role ELSE "user", "",
                 IF message.has_content /\ message.content.t = "str"
                 THEN PyStr(py_str(message.content))
                 ELSE PyStr(<<>>))

ensure_string_content(message) ==
    IF message.kind = "none" THEN Message("user", "", PyStr(<<>>))
    ELSE IF message.kind # "dict"
    THEN Message("user", "", PyStr(py_str(message.content)))
    ELSE Message(IF message.has_role THEN message.role ELSE "user", "",
                 IF message.has_content /\ message.content.t # "none"
                 THEN PyStr(py_str(message.content))
                 ELSE PyStr(<<>>))

\* The arguments of a function call are None or a str here (what the provider
\* sends); the result is None or text.
ensure_string_function_args(function_call) ==
    IF ~function_call.some THEN NoneV
    ELSE IF ~function_call.v.arguments.some THEN NoneV
    ELSE Some(function_call.v.arguments.v)

\* utils.azure_file_storage.safe_json_loads: strict parse, then the lenient
\* fallback, then the empty map.
safe_json_loads(json_data) ==
    IF ~json_data.some THEN EmptyMap
    ELSE LET x == json_loads(json_data.v)
         IN  IF x.kind = "obj" THEN x.f ELSE EmptyMap

\* --------------------------------------------------------- GUID recognition
GuidShaped == {GUID_A, GUID_B}
HEX36_LOOSE == "123e4567e89b12d3a456426614174000----"
Hex36 == GuidShaped \cup {HEX36_LOOSE}

\* guid_pattern.match(text): 8-4-4-4-12 hexadecimal groups, any case.
guid_match(text) == Len(text) = 1 /\ text[1] \in GuidShaped

\* labeled_guid_pattern.match(text): 'guid', one or more of ':', '=', blank,
\* then 36 characters out of hexadecimal digits and dashes.
labeled_guid_match(text) ==
    /\ Len(text) >= 3
    /\ text[1] \in {"guid", "GUID"}
    /\ \A i \in 2..(Len(text) - 1) : text[i] \in {":", "=", WS}
    /\ text[Len(text)] \in Hex36

\* Result of a lookup that may raise: [raised, guid], guid None or a str.
Raised == [raised |-> TRUE, guid |-> NoneV]
Found(g) == [raised |-> FALSE, guid |-> g]

_check_first_message_for_guid(conversation_history) ==
    IF Len(conversation_history) = 0 THEN Found(NoneV)
    ELSE LET first_message == conversation_history[1]
         IN  IF first_message.kind # "dict" THEN Raised
             ELSE IF first_message.has_role /\ first_message.role = "user"
             THEN IF ~first_message.has_content \/ first_message.content.t = "none"
                  THEN Found(NoneV)
                  ELSE LET content == strip(py_str(first_message.content))
                       IN  IF guid_match(content) THEN Found(Some(content[1]))
                           ELSE Found(NoneV)
             ELSE Found(NoneV)

extract_user_guid(text) ==
    IF text.t = "none" THEN NoneV
    ELSE LET text_str == strip(py_str(text))
         IN  IF guid_match(text_str) THEN Some(text_str[1])
             ELSE IF labeled_guid_match(text_str) THEN Some(text_str[Len(text_str)])
             ELSE NoneV

\* ------------------------------------------------------ conversation assembly
\* The system message: fixed text around the two snapshots.
system_prompt(shared, specific) ==
    <<"<identity>...<shared_memory_output>">> \o shared \o
    <<"</shared_memory_output><specific_memory_output>">> \o specific \o
    <<"</specific_memory_output>...</response_format>">>

\* conversation_history[-20:]
HistoryLimit == 20
\* Variant: the history is not cut.
last20_All(h) == h

last20(h) == IF Len(h) > HistoryLimit THEN SubSeq(h, Len(h) - HistoryLimit + 1, Len(h)) ELSE h

\* Variant: the history entries are appended as the request carries them.
prepare_messages_Raw(conversation_history, shared, specific) ==
    LET guid_only_first_message == _check_first_message_for_guid(conversation_history)
        start_idx == IF guid_only_first_message.guid.some THEN 2 ELSE 1
    IN  <<ensure_string_content(Turn("system",
                                     PyStr(system_prompt(shared, specific))))>> \o
        [i \in 1..(Len(conversation_history) - start_idx + 1) |->
            LET entry == conversation_history[i + start_idx - 1]
            IN  Message(IF entry.has_role THEN entry.role ELSE "user", "",
                        entry.content)]

prepare_messages(conversation_history, shared, specific) ==
    LET guid_only_first_message == _check_first_message_for_guid(conversation_history)
        start_idx == IF guid_only_first_message.guid.some THEN 2 ELSE 1
    IN  <<ensure_string_content(Turn("system",
                                     PyStr(system_prompt(shared, specific))))>> \o
        [i \in 1..(Len(conversation_history) - start_idx + 1) |->
            ensure_string_content(conversation_history[i + start_idx - 1])]

\* ------------------------------------------------------------ response codec
parse_response_with_game_data(content) ==
    IF content = <<>> THEN [narrative |-> <<>>, game_data |-> Obj(EmptyMap)]
    ELSE LET parts == split(content)
         IN  IF parts.n >= 2
             THEN [narrative |-> strip(parts.p0),
                   game_data |-> IF json_loads(strip(parts.p1)).kind = "err"
                                 THEN Obj(EmptyMap)
                                 ELSE json_loads(strip(parts.p1))]
             ELSE [narrative |-> strip(content), game_data |-> Obj(EmptyMap)]


\* ------------------------------------------------------------ tool registry
\* Names the bundled agents register under (self.name in src/agents/*.py).
BundledAgents == {"GameWorld", "NPCDialogue", "QuestGenerator", "CombatNarrator"}

\* Agents the 'agents' share may add: the memory agent get_response's list
\* and _initialize_context_memory name, and one generic tool.
SharedAgents == {"ContextMemory", "RollDice"}

\* The registries discovery may yield: the bundled agents and what the share
\* holds.
Registries == {BundledAgents \cup {a} : a \in SharedAgents}

\* The names get_response supplies the active identity to.
IDENTITY_AGENTS ==
    {"ManageMemory", "ContextMemory", "GameWorldAgent", "NPCDialogueAgent",
     "QuestGeneratorAgent", "CombatNarratorAgent", "LootMasterAgent",
     "StoryProgressionAgent", "RandomEventAgent"}

\* ----------------------------------------------------------- memory context
MSG_NO_SHARED == <<"No shared context memory available.">>
MSG_NO_SPECIFIC == <<"No specific context memory available.">>
MSG_MEMORY_FAILED == <<"Context memory initialization failed.">>
SnapshotLimit == 5000

\* text[:5000]
truncate(text) == SubSeq(text, 1, IF Len(text) > SnapshotLimit THEN SnapshotLimit ELSE Len(text))

\* What a full recall of the memory agent does: it returns the document of
\* the key it was called for, returns nothing, or raises.
StoreOutcomes == {"data", "empty", "raise"}
Stores == [shared : StoreOutcomes, user : StoreOutcomes]
HealthyStore == [shared |-> "data", user |-> "data"]

\* Variant: every recall is made under the global context.
snapshot_Global(outcome, key, placeholder) ==
    CASE outcome = "raise" -> MSG_MEMORY_FAILED
      [] outcome = "empty" -> placeholder
      [] OTHER -> truncate(<<"memory of ", "None">>)

\* One snapshot: the recall under a key (None for the shared recall), cut to
\* the limit, or a placeholder.
snapshot(outcome, key, placeholder) ==
    CASE outcome = "raise" -> MSG_MEMORY_FAILED
      [] outcome = "empty" -> placeholder
      [] OTHER -> truncate(<<"memory of ", IF key.some THEN key.v ELSE "None">>)

\* Variant: a failure of the shared recall is caught by the outer handler,
\* which sets both snapshots to the failure text.
_initialize_context_memory_Outer(agents, st, guid) ==
    IF "ContextMemory" \notin agents
    THEN [shared |-> MSG_NO_SHARED, user |-> MSG_NO_SPECIFIC]
    ELSE IF st.shared = "raise"
    THEN [shared |-> MSG_MEMORY_FAILED, user |-> MSG_MEMORY_FAILED]
    ELSE [shared |-> snapshot(st.shared, NoneV, MSG_NO_SHARED),
          user |-> snapshot(st.user, Some(IF guid = "" THEN DEFAULT_USER_GUID ELSE guid),
                            MSG_NO_SPECIFIC)]

\* _initialize_context_memory(guid): the two snapshots it leaves.
_initialize_context_memory(agents, st, guid) ==
    IF "ContextMemory" \notin agents
    THEN [shared |-> MSG_NO_SHARED, user |-> MSG_NO_SPECIFIC]
    ELSE [shared |-> snapshot(st.shared, NoneV, MSG_NO_SHARED),
          user |-> snapshot(st.user, Some(IF guid = "" THEN DEFAULT_USER_GUID ELSE guid),
                            MSG_NO_SPECIFIC)]

\* ------------------------------------------------------------------- inputs
\* Requests: [user_input, conversation_history, user_guid].
Request(u, h, g) == [user_input |-> u, conversation_history |-> h, user_guid |-> g]

GuidHistory ==
    <<Turn("user", PyStr(<<GUID_A>>)), Turn("assistant", PyStr(<<"welcome">>))>>

\* A history of well-formed and malformed entries, none of them an identity
\* signal.
MixedHistory ==
    <<Turn("user", PyStr(<<"hi">>)), NullEntry, ValueEntry(PyNum(<<"5">>)),
      TurnNoContent("assistant"), Turn("user", PyNone),
      TurnNoRole(PyNum(<<"42">>)), Turn("user", PyBool(<<"True">>)),
      TurnNoRole(PyStr(<<"bye">>))>>

Requests ==
    {Request(PyStr(<<"hello">>), <<>>, NoneV),
     Request(PyStr(<<"hello">>), MixedHistory, NoneV),
     Request(PyStr(<<"hello">>), <<NullEntry, Turn("user", PyStr(<<"hi">>))>>, NoneV),
     Request(PyStr(<<"hello">>), GuidHistory, Some(GUID_B)),
     Request(PyStr(<<"guid", ":", WS, GUID_B>>), <<>>, NoneV),
     Request(PyStr(<<GUID_A>>), <<>>, NoneV),
     Request(PyStr(<<GUID_A>>), <<>>, Some(GUID_B)),
     Request(PyStr(<<WS>>), <<>>, NoneV)}

MaxRetriesInputs == {0, 1, DefaultMaxRetries}

\* What one model call may answer: [content, function_call].
Reply(c, f) == [content |-> c, function_call |-> f]
Call(n, a) == Some([name |-> n, arguments |-> a])

Contents ==
    {NoneV, Some(<<"The", WS, "dragon">>),
     Some(<<WS, "The", WS, DELIM, WS, J_EVENT_COMPACT, WS>>),
     Some(<<"The", DELIM, "oops">>),
     Some(<<DELIM, J_LIST>>)}

ToolChoices == {"GameWorld", "ContextMemory", "RollDice", "DoesNotExist"}

ArgumentTexts ==
    {NoneV, Some(<<J_ARGS_NULL>>), Some(<<J_ARGS_GUID>>), Some(<<"oops">>),
     Some(<<J_LIST>>)}

DirectReplies == {Reply(c, NoneV) : c \in Contents}
ToolReplies == {Reply(NoneV, Call(n, a)) : n \in ToolChoices, a \in ArgumentTexts}
\* Answers to the follow-up call: get_response reads only their content.
FinalReplies ==
    {Reply(NoneV, NoneV),
     Reply(Some(<<WS, "The", WS, DELIM, WS, J_EVENT_COMPACT, WS>>), NoneV),
     Reply(Some(<<"The", WS, "dragon">>), Call("GameWorld", NoneV))}

\* What a tool may return (a str, None, or a dict it forgot to serialize).
FollowUpResults == {PyStr(<<J_INCOMPLETE>>), PyStr(<<J_ERROR>>), PyStr(<<J_REQUIRES>>)}
PlainResults ==
    {PyNone, PyStr(<<J_SUCCESS>>), PyDict(<<"{'status': 'incomplete'}">>)}
ToolResults == FollowUpResults \cup PlainResults

ToolErrors == {"boom"}

\* ---------------------------------------------------------------- discovery
\* A candidate source file: where it is listed, its file name and the name
\* the agent class in it declares (self.name).
Candidate(i, src, f, n) == [id |-> i, source |-> src, file |-> f, name |-> n]

\* The bundled agents directory, in the order of os.listdir.
BundledFiles ==
    <<Candidate("b1", "bundled", "game_world_agent.py", "GameWorld"),
      Candidate("b2", "bundled", "npc_dialogue_agent.py", "NPCDialogue")>>

\* The 'agents' share and the 'multi_agents' share, in the order of
\* list_files.
ShareFiles(share) ==
    IF share = "agents"
    THEN <<Candidate("a1", "agents", "context_memory_agent.py", "ContextMemory"),
           Candidate("a2", "agents", "game_world_agent.py", "GameWorld"),
           Candidate("a3", "agents", "README.md", "")>>
    ELSE <<Candidate("m1", "multi_agents", "context_memory_agent.py", "ContextMemory")>>

Shares == <<"agents", "multi_agents">>

LoadedIds == {"b1", "b2", "a1", "a2", "m1"}
ToolNames == {"GameWorld", "NPCDialogue", "ContextMemory"}

\* file.name.endswith('_agent.py')
is_agent_file(f) == f \in {"context_memory_agent.py", "game_world_agent.py",
                           "npc_dialogue_agent.py"}

\* temp_file = f"{temp_dir}/{file.name}"
temp_file(c) == <<"/tmp", c.source, c.file>>

\* What a step of discovery may do: a listing or the construction of the
\* storage manager succeeds or raises; a bundled module loads or raises; a
\* share file is read as None, fails to be read, or is written and then
\* loads or raises on execution or instantiation.
BundledOutcomes == {"ok", "raise"}
ShareOutcomes == {"ok", "none", "read_raise", "exec_raise"}

Environments ==
    [listdir : {"ok", "raise"},
     storage : {"ok", "raise"},
     list : [{"agents", "multi_agents"} -> {"ok", "raise"}],
     load : {f \in [LoadedIds -> BundledOutcomes \cup ShareOutcomes] :
                \A i \in LoadedIds :
                    f[i] \in IF i \in {"b1", "b2"} THEN BundledOutcomes
                             ELSE ShareOutcomes}]

HealthyEnvironment ==
    [listdir |-> "ok", storage |-> "ok",
     list |-> [sh \in {"agents", "multi_agents"} |-> "ok"],
     load |-> [i \in LoadedIds |-> "ok"]]

\* The requests whose discovery may run at the same time.
Procs == {1, 2}

\* declared_agents: tool name -> the candidate whose instance is registered,
\* "" for no entry.
NoAgents == [n \in ToolNames |-> ""]

\* Variant: a name that has an entry keeps it.
register_FirstWins(declared, c) ==
    IF declared[c.name] = "" THEN [declared EXCEPT ![c.name] = c.id] ELSE declared

\* declared_agents[agent_instance.name] = agent_instance
register(declared, c) == [declared EXCEPT ![c.name] = c.id]

\* A run of load_agents_from_folder: its position, the share and the index
\* of the file it is at, declared_agents, and (history) the scratch files
\* it has written.
Loader(at, sh, i, d, w) ==
    [pc |-> at, share |-> sh, idx |-> i, declared |-> d, written |-> w]

LoaderOff == Loader("off", 1, 1, NoAgents, {})
LoaderStart == Loader("start", 1, 1, NoAgents, {})

\* -------------------------------------------------------------------- state
\* ------------------------------------------------------ the memory document
\* A Python dict: dict.get(key, default) and d[key] = value.
dict_get(d, key, default) == IF key \in DOMAIN d THEN d[key] ELSE default
dict_set(d, key, value) ==
    [k \in DOMAIN d \cup {key} |-> IF k = key THEN value ELSE d[k]]

\* The document the memory store keeps under one key, by the entries the
\* bundled agents use; an entry that is missing reads as the empty value.
EmptyDocument ==
    [world_state |-> EmptyMap, npcs |-> EmptyMap, active_quests |-> <<>>,
     combat_stats |-> EmptyMap]

\* GameWorldAgent.__init__: the templates of the world.
weather_types == {"clear", "rain", "storm", "fog", "snow", "sandstorm"}
world_events ==
    {"merchant_caravan", "bandit_attack", "dragon_sighting", "meteor_shower",
     "magical_anomaly", "festival", "plague_outbreak", "treasure_discovery",
     "portal_opening", "ancient_awakening"}
factions == {"Kingdom", "Rebels", "Merchants", "Wizards", "Thieves", "Dragons"}
seasons == <<"spring", "summer", "autumn", "winter">>

\* The world state get_world_state generates (the market prices are drawn at
\* random and are one value here).
InitialWorldState ==
    [time_of_day |-> 12, day_count |-> 1, weather |-> "clear",
     season |-> "spring", active_events |-> <<>>,
     faction_standings |-> [f \in factions |-> 50], world_threats |-> <<>>,
     discovered_locations |-> <<>>, global_market_prices |-> "prices",
     prophecy_progress |-> 0, world_stability |-> 75]

\* What the model may pass to GameWorld: parameters.get('hours', 1),
\* parameters.get('weather'), parameters.get('event_type'),
\* parameters.get('faction') and parameters.get('change', 0).
HoursInputs == {NoneV, Some(0), Some(6), Some(24), Some(36)}
WeatherInputs == {NoneV, Some("rain")}
EventInputs ==
    {NoneV, Some("festival"), Some("dragon_sighting"), Some("merchant_caravan")}
FactionInputs ==
    {[faction |-> NoneV, change |-> 0],
     [faction |-> Some("Kingdom"), change |-> 0 - 40],
     [faction |-> Some("Kingdom"), change |-> 40]}

\* What the model may pass to NPCDialogue.
NpcNames == {"Aldric", "Bella"}
PlayerActions == {"greet", "threaten", "compliment", "trade"}

\* What the model may pass to CombatNarrator: combat_event and damage.
CombatInputs ==
    {[combat_event |-> "attack", damage |-> 10],
     [combat_event |-> "miss", damage |-> 0],
     [combat_event |-> "defend", damage |-> 0]}

\* update_combat_stats: the statistics of a document that has none.
NewCombatStats ==
    [total_damage_dealt |-> 0, total_damage_taken |-> 0, critical_hits |-> 0,
     misses |-> 0, victories |-> 0, defeats |-> 0, special_moves_used |-> 0]

\* A call of an agent's perform: where it is, the locals it holds and how the
\* last call ended.
Worker(at, c, a, m, st, w, sv) ==
    [pc |-> at, call |-> c, args |-> a, memory_data |-> m, status |-> st,
     wrote |-> w, saved |-> sv]
WorkerOff == Worker("idle", "", EmptyMap, EmptyDocument, "none", FALSE, <<>>)

VARIABLES
    request,              \* the request body main received
    max_retries,          \* get_response's retry budget
    known_agents,         \* Assistant.known_agents: the registered names
    store,                \* what the memory agent's recalls do in this request
    user_guid,            \* Assistant.user_guid: the active identity
    shared_memory,        \* Assistant.shared_memory: the shared snapshot
    user_memory,          \* Assistant.user_memory: the per-user snapshot
    pc,                   \* position in main / get_response
    messages,             \* the message list of the turn
    agent_logs,           \* get_response's agent_logs
    retry_count,          \* get_response's retry_count
    needs_follow_up,      \* get_response's needs_follow_up
    assistant_msg,        \* the answer of the last model call, None before it
    agent_name,           \* the selected tool while it is being invoked
    agent_result,         \* what agent.perform returned in this invocation, if it has
    sanitized_parameters, \* the parameters the tool is invoked with
    result,               \* what get_response returned
    model_calls,          \* history: model calls made in this turn
    failed_calls,         \* history: model calls that raised
    iterations,           \* history: iterations of the dispatch loop begun
    tool_invocations,     \* history: calls of agent.perform by the loop
    discovery_env,        \* what listing and loading do during discovery
    loaders,              \* the runs of load_agents_from_folder, per request
    scratch,              \* the files present under /tmp/agents, /tmp/multi_agents
    document,             \* the document the memory store keeps under the key
    workers,              \* the calls of agent.perform on that key, per request
    performed             \* history: calls of agent.perform begun on that key

turn_vars == <<request, max_retries, known_agents, store, user_guid, shared_memory,
               user_memory, pc, messages,
               agent_logs, retry_count, needs_follow_up, assistant_msg, agent_name,
               agent_result, sanitized_parameters, result, model_calls,
               failed_calls, iterations, tool_invocations>>

discovery_vars == <<discovery_env, loaders, scratch>>

agent_vars == <<document, workers, performed>>

vars == <<turn_vars, discovery_vars, agent_vars>>

\* No discovery is being looked at.
DiscoveryIdle ==
    /\ discovery_env = HealthyEnvironment
    /\ loaders = [p \in Procs |-> LoaderOff]
    /\ scratch = {}

\* No agent is being performed and the memory key holds no document yet.
AgentsIdle ==
    /\ document = EmptyDocument
    /\ workers = [p \in Procs |-> WorkerOff]
    /\ performed = 0

NoResult == [narrative |-> <<>>, game_data |-> <<>>, agent_logs |-> <<>>]
Triple(n, g, l) == [narrative |-> n, game_data |-> g, agent_logs |-> l]

\* The state when main has built the Assistant (Assistant.__init__), for the
\* given behaviours of the memory store and retry budgets.
InitTurn(requests, stores, budgets) ==
    /\ request \in requests
    /\ max_retries \in budgets
    /\ known_agents \in Registries
    /\ store \in stores
    /\ user_guid = DEFAULT_USER_GUID
    /\ shared_memory = _initialize_context_memory(known_agents, store, DEFAULT_USER_GUID).shared
    /\ user_memory = _initialize_context_memory(known_agents, store, DEFAULT_USER_GUID).user
    /\ pc = "main"
    /\ messages = <<>>
    /\ agent_logs = <<>>
    /\ retry_count = 0
    /\ needs_follow_up = FALSE
    /\ assistant_msg = NoneV
    /\ agent_name = ""
    /\ agent_result = NoneV
    /\ sanitized_parameters = EmptyMap
    /\ result = NoResult
    /\ model_calls = 0
    /\ failed_calls = 0
    /\ iterations = 0
    /\ tool_invocations = 0

InitFor(requests, stores, budgets) ==
    /\ InitTurn(requests, stores, budgets)
    /\ DiscoveryIdle
    /\ AgentsIdle

InitWith(stores, budgets) == InitFor(Requests, stores, budgets)

\* Turns with a memory store that answers.
Init == InitWith({HealthyStore}, MaxRetriesInputs)


\* ------------------------------------------------------------------ actions
Return(r) ==
    /\ pc' = "done"
    /\ result' = r

\* main: validation of the request and the identity the request selects.
Main ==
    /\ pc = "main"
    /\ LET user_input == strip(py_str(request.user_input))
           is_guid_only == guid_match(user_input)
           new_guid == IF request.user_guid.some /\ request.user_guid.v # ""
                       THEN request.user_guid.v
                       ELSE user_input[1]
           memory == _initialize_context_memory(known_agents, store, new_guid)
       IN  IF ~is_guid_only /\ user_input = <<>>
           THEN /\ pc' = "rejected"
                /\ UNCHANGED <<user_guid, shared_memory, user_memory>>
           ELSE /\ pc' = "get_response"
                /\ IF (request.user_guid.some /\ request.user_guid.v # "") \/ is_guid_only
                   THEN /\ user_guid' = new_guid
                        /\ shared_memory' = memory.shared
                        /\ user_memory' = memory.user
                   ELSE UNCHANGED <<user_guid, shared_memory, user_memory>>
    /\ UNCHANGED <<agent_vars, discovery_vars, agent_result, request, max_retries, known_agents, store, messages, agent_logs,
                   retry_count, needs_follow_up, assistant_msg, agent_name,
                   sanitized_parameters, result, model_calls, failed_calls,
                   iterations, tool_invocations>>

\* get_response up to the dispatch loop: identity resolution, the bootstrap
\* short-circuit and the assembly of the message list.
GetResponse ==
    /\ pc = "get_response"
    /\ LET conversation_history == last20(request.conversation_history)
           guid_from_history == _check_first_message_for_guid(conversation_history)
           guid_from_prompt == extract_user_guid(request.user_input)
           target_guid == IF guid_from_history.guid.some THEN guid_from_history.guid
                          ELSE guid_from_prompt
           refetch == (target_guid.some /\ target_guid.v # user_guid) \/ user_guid = ""
           new_guid == IF target_guid.some /\ target_guid.v # user_guid
                       THEN target_guid.v
                       ELSE IF user_guid = "" THEN DEFAULT_USER_GUID
                       ELSE user_guid
           memory == IF refetch
                     THEN _initialize_context_memory(known_agents, store, new_guid)
                     ELSE [shared |-> shared_memory, user |-> user_memory]
           prompt == py_str(request.user_input)
       IN  IF guid_from_history.raised
           THEN /\ Return(Triple(MSG_CRITICAL, <<J_EMPTY>>, <<>>))
                /\ UNCHANGED <<user_guid, shared_memory, user_memory, messages>>
           ELSE /\ user_guid' = new_guid
                /\ shared_memory' = memory.shared
                /\ user_memory' = memory.user
                /\ IF /\ guid_from_prompt.some
                      /\ strip(prompt) = <<guid_from_prompt.v>>
                      /\ new_guid = guid_from_prompt.v
                   THEN /\ Return(Triple(MSG_WORLD_INIT, <<J_WORLD_INIT>>, <<>>))
                        /\ UNCHANGED messages
                   ELSE /\ messages' =
                                prepare_messages(conversation_history, memory.shared,
                                                 memory.user) \o
                                <<ensure_string_content(Turn("user", PyStr(prompt)))>>
                        /\ pc' = "loop"
                        /\ UNCHANGED result
    /\ UNCHANGED <<agent_vars, discovery_vars, agent_result, request, max_retries, known_agents, store, agent_logs, retry_count,
                   needs_follow_up, assistant_msg, agent_name,
                   sanitized_parameters, model_calls, failed_calls, iterations,
                   tool_invocations>>

\* Variant: the except clause retries without counting the failure.
HandleModelError_NoCount ==
    /\ retry_count' = retry_count
    /\ failed_calls' = failed_calls + 1
    /\ pc' = "loop"
    /\ UNCHANGED result

\* The except clause of the dispatch loop (lines 553-560).
HandleModelError ==
    /\ retry_count' = retry_count + 1
    /\ failed_calls' = failed_calls + 1
    /\ IF retry_count + 1 < max_retries
       THEN /\ pc' = "loop"
            /\ UNCHANGED result
       ELSE Return(Triple(MSG_ERROR_RETRY, <<J_EMPTY>>, <<>>))

\* while retry_count < max_retries is false: the statement after the loop.
LoopExit ==
    /\ pc = "loop"
    /\ ~(retry_count < max_retries)
    /\ Return(Triple(MSG_UNAVAILABLE, <<J_EMPTY>>, <<>>))
    /\ UNCHANGED <<agent_vars, discovery_vars, agent_result, request, max_retries, known_agents, store, store, user_guid, shared_memory,
                   user_memory, messages,
                   agent_logs, retry_count, needs_follow_up, assistant_msg,
                   agent_name, sanitized_parameters, model_calls, failed_calls,
                   iterations, tool_invocations>>

CanCallModel ==
    /\ pc = "loop"
    /\ retry_count < max_retries
    /\ model_calls < MaxModelCalls

\* The model call at the head of an iteration raises.
ModelCallFails ==
    /\ CanCallModel
    /\ model_calls' = model_calls + 1
    /\ iterations' = iterations + 1
    /\ HandleModelError
    /\ UNCHANGED <<agent_vars, discovery_vars, agent_result, request, max_retries, known_agents, store, store, user_guid, shared_memory,
                   user_memory, messages,
                   agent_logs, needs_follow_up, assistant_msg, agent_name,
                   sanitized_parameters, tool_invocations>>

\* Variant: the answer is returned as it came, not decoded.
ModelAnswersDirectly_Raw ==
    /\ CanCallModel
    /\ \E reply \in DirectReplies :
        LET msg_contents == IF reply.content.some THEN reply.content.v ELSE <<>>
        IN  /\ assistant_msg' = Some(reply)
            /\ Return(Triple(msg_contents, <<J_EMPTY>>, join(agent_logs)))
    /\ model_calls' = model_calls + 1
    /\ iterations' = iterations + 1
    /\ UNCHANGED <<agent_vars, discovery_vars, agent_result, request, max_retries, known_agents, store, store, user_guid, shared_memory,
                   user_memory, messages,
                   agent_logs, retry_count, needs_follow_up, agent_name,
                   sanitized_parameters, failed_calls, tool_invocations>>

\* The model answers without a function call.
ModelAnswersDirectly ==
    /\ CanCallModel
    /\ \E reply \in DirectReplies :
        LET msg_contents == IF reply.content.some THEN reply.content.v ELSE <<>>
            parsed == parse_response_with_game_data(msg_contents)
        IN  /\ assistant_msg' = Some(reply)
            /\ Return(Triple(parsed.narrative, json_dumps(parsed.game_data),
                             join(agent_logs)))
    /\ model_calls' = model_calls + 1
    /\ iterations' = iterations + 1
    /\ UNCHANGED <<agent_vars, discovery_vars, agent_result, request, max_retries, known_agents, store, store, user_guid, shared_memory,
                   user_memory, messages,
                   agent_logs, retry_count, needs_follow_up, agent_name,
                   sanitized_parameters, failed_calls, tool_invocations>>

\* Variant: an unknown name is handled like a failed model call.
ModelSelectsUnknownAgent_Retry ==
    /\ CanCallModel
    /\ \E reply \in ToolReplies :
        /\ reply.function_call.v.name \notin known_agents
        /\ assistant_msg' = Some(reply)
    /\ model_calls' = model_calls + 1
    /\ iterations' = iterations + 1
    /\ retry_count' = retry_count + 1
    /\ IF retry_count + 1 < max_retries
       THEN /\ pc' = "loop"
            /\ UNCHANGED result
       ELSE Return(Triple(MSG_ERROR_RETRY, <<J_EMPTY>>, <<>>))
    /\ UNCHANGED <<agent_vars, discovery_vars, agent_result, request, max_retries, known_agents, store, store, user_guid, shared_memory,
                   user_memory, messages,
                   agent_logs, needs_follow_up, agent_name,
                   sanitized_parameters, failed_calls, tool_invocations>>

\* The model selects a name the registry does not hold.
ModelSelectsUnknownAgent ==
    /\ CanCallModel
    /\ \E reply \in ToolReplies :
        /\ reply.function_call.v.name \notin known_agents
        /\ assistant_msg' = Some(reply)
        /\ Return(Triple(<<"Agent '", reply.function_call.v.name, "' does not exist">>,
                         <<J_EMPTY>>, <<>>))
    /\ model_calls' = model_calls + 1
    /\ iterations' = iterations + 1
    /\ UNCHANGED <<agent_vars, discovery_vars, agent_result, request, max_retries, known_agents, store, store, user_guid, shared_memory,
                   user_memory, messages,
                   agent_logs, retry_count, needs_follow_up, agent_name,
                   sanitized_parameters, failed_calls, tool_invocations>>

\* Variant: the arguments are passed as the model gave them.
sanitize_Keep(agent_parameters) == agent_parameters

\* Lines 504-509: None values become ''.
sanitize(agent_parameters) ==
    [key \in DOMAIN agent_parameters |->
        IF agent_parameters[key].t = "null" THEN Str("") ELSE agent_parameters[key]]

\* Lines 511-514: the active identity is set for the listed names.
with_identity(name, parameters, guid) ==
    IF name \in IDENTITY_AGENTS
    THEN [key \in DOMAIN parameters \cup {"user_guid"} |->
            IF key = "user_guid" THEN Str(guid) ELSE parameters[key]]
    ELSE parameters

\* Variant: the payload is parsed strictly, and a payload that is not a JSON
\* object ends the turn in the handler of the invocation.
ModelSelectsAgent_StrictParse ==
    /\ CanCallModel
    /\ \E reply \in ToolReplies :
        /\ reply.function_call.v.name \in known_agents
        /\ assistant_msg' = Some(reply)
        /\ LET json_data == ensure_string_function_args(reply.function_call)
               parsed == IF json_data.some THEN json_loads(strip(json_data.v))
                         ELSE JsonErr
           IN  IF parsed.kind = "obj"
               THEN /\ agent_name' = reply.function_call.v.name
                    /\ sanitized_parameters' =
                           with_identity(reply.function_call.v.name,
                                         sanitize(parsed.f), user_guid)
                    /\ pc' = "invoke"
                    /\ tool_invocations' = tool_invocations + 1
                    /\ UNCHANGED result
               ELSE /\ Return(Triple(<<"Error executing agent: ", "payload">>,
                                     <<J_EMPTY>>, <<>>))
                    /\ UNCHANGED <<agent_name, sanitized_parameters,
                                   tool_invocations>>
    /\ model_calls' = model_calls + 1
    /\ iterations' = iterations + 1
    /\ agent_result' = NoneV
    /\ UNCHANGED <<agent_vars, discovery_vars, request, max_retries, known_agents, store, user_guid,
                   shared_memory, user_memory, messages, agent_logs,
                   retry_count, needs_follow_up, failed_calls>>

\* The model selects a registered agent: its parameters are prepared and
\* agent.perform is entered.
ModelSelectsAgent ==
    /\ CanCallModel
    /\ \E reply \in ToolReplies :
        /\ reply.function_call.v.name \in known_agents
        /\ assistant_msg' = Some(reply)
        /\ agent_name' = reply.function_call.v.name
        /\ LET json_data == ensure_string_function_args(reply.function_call)
               agent_parameters == safe_json_loads(json_data)
           IN  sanitized_parameters' =
                   with_identity(reply.function_call.v.name,
                                 sanitize(agent_parameters), user_guid)
    /\ pc' = "invoke"
    /\ model_calls' = model_calls + 1
    /\ iterations' = iterations + 1
    /\ tool_invocations' = tool_invocations + 1
    /\ agent_result' = NoneV
    /\ UNCHANGED <<agent_vars, discovery_vars, request, max_retries, known_agents, store, store, user_guid, shared_memory,
                   user_memory, messages,
                   agent_logs, retry_count, needs_follow_up, result,
                   failed_calls>>

\* Variant: an exception of the tool reaches the except clause of the loop.
AgentRaises_Retry ==
    /\ pc = "invoke"
    /\ retry_count' = retry_count + 1
    /\ IF retry_count + 1 < max_retries
       THEN /\ pc' = "loop"
            /\ UNCHANGED result
       ELSE Return(Triple(MSG_ERROR_RETRY, <<J_EMPTY>>, <<>>))
    /\ UNCHANGED <<agent_vars, discovery_vars, agent_result, request, max_retries, known_agents, store, store, user_guid, shared_memory,
                   user_memory, messages,
                   agent_logs, needs_follow_up, assistant_msg, agent_name,
                   sanitized_parameters, model_calls, failed_calls, iterations,
                   tool_invocations>>

\* agent.perform raises (lines 525-527).
AgentRaises ==
    /\ pc = "invoke"
    /\ \E e \in ToolErrors :
        Return(Triple(<<"Error executing agent: ", e>>, <<J_EMPTY>>, <<>>))
    /\ UNCHANGED <<agent_vars, discovery_vars, agent_result, request, max_retries, known_agents, store, store, user_guid, shared_memory,
                   user_memory, messages,
                   agent_logs, retry_count, needs_follow_up, assistant_msg,
                   agent_name, sanitized_parameters, model_calls, failed_calls,
                   iterations, tool_invocations>>

\* Variant: the requires_additional_action flag is not looked at.
follow_up_NoFlag(result_text) ==
    LET result_json == json_loads(result_text)
    IN  /\ result_json.kind = "obj"
        /\ \/ Truthy(Get(result_json.f, "error"))
           \/ EqStr(Get(result_json.f, "status"), "incomplete")

\* Lines 535-544: does the tool's result ask for another model turn?
follow_up(result_text) ==
    LET result_json == json_loads(result_text)
    IN  /\ result_json.kind = "obj"
        /\ \/ Truthy(Get(result_json.f, "error"))
           \/ EqStr(Get(result_json.f, "status"), "incomplete")
           \/ EqTrue(Get(result_json.f, "requires_additional_action"))

\* Variant: a tool that returns None ends the turn with an error result.
AgentReturns_NoneIsError ==
    /\ pc = "invoke"
    /\ \E r \in ToolResults :
        LET text == py_str(r)
        IN  /\ agent_result' = Some(r)
            /\ IF r.t = "none"
               THEN /\ Return(Triple(<<"Error executing agent: ", "no result">>,
                                     <<J_EMPTY>>, <<>>))
                    /\ UNCHANGED <<agent_logs, messages, needs_follow_up>>
               ELSE /\ agent_logs' = Append(agent_logs,
                           <<"Performed ", agent_name, " and got result: ">> \o text)
                    /\ messages' = Append(messages,
                                          Message("function", agent_name, PyStr(text)))
                    /\ needs_follow_up' = follow_up(text)
                    /\ pc' = IF follow_up(text) THEN "loop" ELSE "final"
                    /\ UNCHANGED result
    /\ assistant_msg' = NoneV
    /\ agent_name' = ""
    /\ sanitized_parameters' = EmptyMap
    /\ UNCHANGED <<agent_vars, discovery_vars, request, max_retries, known_agents, store, user_guid,
                   shared_memory, user_memory, retry_count, model_calls,
                   failed_calls, iterations, tool_invocations>>

\* Variant: the log of the turn is started afresh by each invocation.
AgentReturns_FreshLog ==
    /\ pc = "invoke"
    /\ \E r \in ToolResults :
        LET text == IF r.t = "none" THEN MSG_AGENT_OK ELSE py_str(r)
        IN  /\ agent_result' = Some(r)
            /\ agent_logs' = <<<<"Performed ", agent_name, " and got result: ">> \o text>>
            /\ messages' = Append(messages, Message("function", agent_name, PyStr(text)))
            /\ needs_follow_up' = follow_up(text)
            /\ pc' = IF follow_up(text) THEN "loop" ELSE "final"
    /\ assistant_msg' = NoneV
    /\ agent_name' = ""
    /\ sanitized_parameters' = EmptyMap
    /\ UNCHANGED <<agent_vars, discovery_vars, request, max_retries, known_agents, store, user_guid,
                   shared_memory, user_memory, retry_count, result, model_calls,
                   failed_calls, iterations, tool_invocations>>

\* agent.perform returns (lines 518-546).  The locals of the invocation are
\* dead afterwards and are reset.
AgentReturns ==
    /\ pc = "invoke"
    /\ \E r \in ToolResults :
        LET text == IF r.t = "none" THEN MSG_AGENT_OK ELSE py_str(r)
        IN  /\ agent_result' = Some(r)
            /\ agent_logs' = Append(agent_logs,
                    <<"Performed ", agent_name, " and got result: ">> \o text)
            /\ messages' = Append(messages, Message("function", agent_name, PyStr(text)))
            /\ needs_follow_up' = follow_up(text)
            /\ pc' = IF follow_up(text) THEN "loop" ELSE "final"
    /\ assistant_msg' = NoneV
    /\ agent_name' = ""
    /\ sanitized_parameters' = EmptyMap
    /\ UNCHANGED <<agent_vars, discovery_vars, request, max_retries, known_agents, store, store, user_guid, shared_memory,
                   user_memory, retry_count,
                   result, model_calls, failed_calls, iterations,
                   tool_invocations>>

\* Variant: a function call in the follow-up answer is dispatched.
FinalCallAnswers_Dispatch ==
    /\ pc = "final"
    /\ model_calls < MaxModelCalls
    /\ \E reply \in FinalReplies :
        LET final_content == IF reply.content.some THEN reply.content.v ELSE <<>>
            parsed == parse_response_with_game_data(final_content)
        IN  /\ assistant_msg' = Some(reply)
            /\ IF reply.function_call.some
               THEN /\ pc' = "invoke"
                    /\ agent_name' = reply.function_call.v.name
                    /\ tool_invocations' = tool_invocations + 1
                    /\ UNCHANGED result
               ELSE /\ Return(Triple(parsed.narrative, json_dumps(parsed.game_data),
                                     join(agent_logs)))
                    /\ UNCHANGED <<agent_name, tool_invocations>>
    /\ model_calls' = model_calls + 1
    /\ agent_result' = NoneV
    /\ UNCHANGED <<agent_vars, discovery_vars, request, max_retries, known_agents, store, store, user_guid, shared_memory,
                   user_memory, messages,
                   agent_logs, retry_count, needs_follow_up,
                   sanitized_parameters, failed_calls, iterations>>

\* The follow-up model call (lines 547-551) answers.
FinalCallAnswers ==
    /\ pc = "final"
    /\ model_calls < MaxModelCalls
    /\ \E reply \in FinalReplies :
        LET final_content == IF reply.content.some THEN reply.content.v ELSE <<>>
            parsed == parse_response_with_game_data(final_content)
        IN  /\ assistant_msg' = Some(reply)
            /\ Return(Triple(parsed.narrative, json_dumps(parsed.game_data),
                             join(agent_logs)))
    /\ model_calls' = model_calls + 1
    /\ UNCHANGED <<agent_vars, discovery_vars, agent_result, request, max_retries, known_agents, store, store, user_guid, shared_memory,
                   user_memory, messages,
                   agent_logs, retry_count, needs_follow_up, agent_name,
                   sanitized_parameters, failed_calls, iterations,
                   tool_invocations>>

\* The follow-up model call raises: the except clause of the loop runs.
FinalCallFails ==
    /\ pc = "final"
    /\ model_calls < MaxModelCalls
    /\ model_calls' = model_calls + 1
    /\ HandleModelError
    /\ UNCHANGED <<agent_vars, discovery_vars, agent_result, request, max_retries, known_agents, store, store, user_guid, shared_memory,
                   user_memory, messages,
                   agent_logs, needs_follow_up, assistant_msg, agent_name,
                   sanitized_parameters, iterations, tool_invocations>>

Next ==
    \/ Main
    \/ GetResponse
    \/ LoopExit
    \/ ModelCallFails
    \/ ModelAnswersDirectly
    \/ ModelSelectsUnknownAgent
    \/ ModelSelectsAgent
    \/ AgentRaises
    \/ AgentReturns
    \/ FinalCallAnswers
    \/ FinalCallFails

Spec == Init /\ [][Next]_vars

\* ------------------------------------------- the turn up to the dispatch loop
\* n well-formed turns, user and assistant alternating, each with its own text.
turns(n) ==
    [i \in 1..n |-> Turn(IF i % 2 = 1 THEN "user" ELSE "assistant",
                         PyStr(<<"turn", ToString(i)>>))]

\* Histories a request body may carry (main checks only that it is a list).
HistoriesAssembly ==
    {<<>>,
     GuidHistory,
     <<Turn("user", PyStr(<<WS, GUID_B, WS>>)), Turn("user", PyStr(<<"hi">>))>>,
     <<TurnNoRole(PyStr(<<GUID_A>>)), Turn("assistant", PyStr(<<"welcome">>))>>,
     <<Turn("assistant", PyStr(<<GUID_A>>)), Turn("user", PyStr(<<"hi">>))>>,
     <<NullEntry, Turn("user", PyStr(<<"hi">>))>>,
     <<ValueEntry(PyStr(<<GUID_A>>))>>,
     MixedHistory,
     <<Turn("user", PyStr(<<GUID_A>>))>> \o turns(19),
     <<Turn("user", PyStr(<<GUID_A>>))>> \o turns(20),
     turns(2) \o <<Turn("user", PyStr(<<GUID_B>>))>> \o turns(19),
     turns(25)}

UtterancesAssembly ==
    {PyStr(<<"hello">>),
     PyStr(<<GUID_A>>),
     PyStr(<<WS, GUID_A, WS>>),
     PyStr(<<"guid", ":", WS, GUID_B>>),
     PyStr(<<"guid", ":", WS, HEX36_LOOSE>>),
     PyStr(<<"my", WS, "id", WS, "is", WS, GUID_A>>),
     PyStr(<<WS>>)}

\* The user_guid field of the body: absent, empty, a GUID, or any other text.
FieldsAssembly == {NoneV, Some(""), Some(GUID_A), Some(GUID_B), Some("player-one")}

RequestsAssembly ==
    {Request(u, h, g) : u \in UtterancesAssembly, h \in HistoriesAssembly,
                        g \in FieldsAssembly}

\* Every behaviour of the memory store, the default retry budget.
InitAssembly == InitFor(RequestsAssembly, Stores, {DefaultMaxRetries})

NextAssembly ==
    \/ Main
    \/ GetResponse

\* main and get_response up to the point where the assembled message list is
\* handed to the dispatch loop.
SpecAssembly == InitAssembly /\ [][NextAssembly]_vars


\* ------------------------------------------------------- the response codec
\* Narratives and structured objects an answer may be encoded from.
NarrativesCodec ==
    {<<>>, <<"The", WS, "dragon">>, <<WS, "The", WS>>, <<"a", DELIM, "b">>,
     <<"The">>, <<"{}">>}

ObjectsCodec ==
    {JsonTable[d] : d \in {J_EMPTY, J_EVENT, J_SUCCESS, J_INCOMPLETE, J_ERROR,
                           J_REQUIRES, J_WORLD_INIT, J_ARGS_NULL}}
    \cup {NoteObj}

\* "<narrative>" + delimiter + json(structured)
encode(n, s) == n \o <<DELIM>> \o json_dumps(s)

\* Other answers of the model: no content, no delimiter, a segment that is
\* not JSON, a second delimiter.
TextsCodec ==
    Contents \cup
    {Some(<<>>), Some(<<WS>>), Some(<<"The", DELIM>>), Some(<<DELIM>>),
     Some(<<"The", DELIM, J_EVENT, DELIM, "junk">>),
     Some(<<"The", DELIM, "oops", DELIM, J_EVENT>>),
     Some(<<"The", DELIM, WS, J_EMPTY_SP, WS>>)}

RepliesCodec ==
    {Reply(Some(encode(n, s)), NoneV) : n \in NarrativesCodec, s \in ObjectsCodec}
    \cup {Reply(c, NoneV) : c \in TextsCodec}

\* get_response has received an answer of the model without a function call
\* (line 485) and is about to decode it.
InitCodec ==
    /\ request = Request(PyStr(<<"hello">>), <<>>, NoneV)
    /\ max_retries = DefaultMaxRetries
    /\ known_agents = BundledAgents \cup {"ContextMemory"}
    /\ store = HealthyStore
    /\ user_guid = DEFAULT_USER_GUID
    /\ shared_memory = _initialize_context_memory(known_agents, store, DEFAULT_USER_GUID).shared
    /\ user_memory = _initialize_context_memory(known_agents, store, DEFAULT_USER_GUID).user
    /\ pc = "decode"
    /\ messages = prepare_messages(<<>>, shared_memory, user_memory) \o
                      <<ensure_string_content(Turn("user", PyStr(<<"hello">>)))>>
    /\ agent_logs = <<>>
    /\ retry_count = 0
    /\ needs_follow_up = FALSE
    /\ assistant_msg \in {Some(reply) : reply \in RepliesCodec}
    /\ agent_name = ""
    /\ agent_result = NoneV
    /\ sanitized_parameters = EmptyMap
    /\ result = NoResult
    /\ model_calls = 1
    /\ failed_calls = 0
    /\ iterations = 1
    /\ tool_invocations = 0
    /\ DiscoveryIdle
    /\ AgentsIdle

\* Lines 486-490: the answer is decoded and returned.
DecodeReply ==
    /\ pc = "decode"
    /\ LET msg_contents == IF assistant_msg.v.content.some
                           THEN assistant_msg.v.content.v ELSE <<>>
           parsed == parse_response_with_game_data(msg_contents)
       IN  Return(Triple(parsed.narrative, json_dumps(parsed.game_data),
                         join(agent_logs)))
    /\ UNCHANGED <<agent_vars, discovery_vars, agent_result, request, max_retries, known_agents, store, user_guid,
                   shared_memory, user_memory, messages, agent_logs,
                   retry_count, needs_follow_up, assistant_msg, agent_name,
                   sanitized_parameters, model_calls, failed_calls, iterations,
                   tool_invocations>>

NextCodec == DecodeReply

SpecCodec == InitCodec /\ [][NextCodec]_vars


\* ------------------------------------------------- load_agents_from_folder
\* The file a run is at in the share it is at.
current(l) == ShareFiles(Shares[l.share])[l.idx]

\* After the loop over a share: the next share, or return declared_agents.
next_share(l) ==
    IF l.share < Len(Shares)
    THEN [l EXCEPT !.pc = "list", !.share = l.share + 1, !.idx = 1]
    ELSE [l EXCEPT !.pc = "returned"]

\* Assistant.reload_agents: the registry of the Assistant, keyed by the name
\* each registered instance declares.
reload_agents(agent_objects) ==
    [n \in ToolNames |->
        LET keys == {k \in ToolNames :
                        /\ agent_objects[k] # ""
                        /\ \E i \in 1..3, sh \in {1, 2} :
                              \/ /\ i <= Len(BundledFiles)
                                 /\ BundledFiles[i].id = agent_objects[k]
                                 /\ BundledFiles[i].name = n
                              \/ /\ i <= Len(ShareFiles(Shares[sh]))
                                 /\ ShareFiles(Shares[sh])[i].id = agent_objects[k]
                                 /\ ShareFiles(Shares[sh])[i].name = n}
        IN  IF keys = {} THEN "" ELSE agent_objects[CHOOSE k \in keys : TRUE]]

\* Lines 77-79: the bundled directory is listed, outside of any handler.
ListBundled ==
    /\ \E p \in Procs :
        /\ loaders[p].pc = "start"
        /\ loaders' = [loaders EXCEPT ![p].pc =
                          IF discovery_env.listdir = "ok" THEN "bundled" ELSE "raised"]
    /\ UNCHANGED <<agent_vars, turn_vars, discovery_env, scratch>>

\* Lines 82-93: one bundled module is imported and its agent registered; an
\* exception skips the file.
LoadBundled ==
    /\ \E p \in Procs :
        LET l == loaders[p]
        IN  /\ l.pc = "bundled"
            /\ l.idx <= Len(BundledFiles)
            /\ loaders' = [loaders EXCEPT ![p] =
                   [l EXCEPT !.idx = l.idx + 1,
                             !.declared =
                                 IF discovery_env.load[BundledFiles[l.idx].id] = "ok"
                                 THEN register(l.declared, BundledFiles[l.idx])
                                 ELSE l.declared]]
    /\ UNCHANGED <<agent_vars, turn_vars, discovery_env, scratch>>

\* Line 95: the storage manager is constructed, outside of any handler.
ConstructStorage ==
    /\ \E p \in Procs :
        LET l == loaders[p]
        IN  /\ l.pc = "bundled"
            /\ l.idx > Len(BundledFiles)
            /\ loaders' = [loaders EXCEPT ![p] =
                   IF discovery_env.storage = "ok"
                   THEN [l EXCEPT !.pc = "list", !.share = 1, !.idx = 1]
                   ELSE [l EXCEPT !.pc = "raised"]]
    /\ UNCHANGED <<agent_vars, turn_vars, discovery_env, scratch>>

\* Lines 97 and 137: a share is listed; an exception is caught by the
\* handler around the share (lines 131, 191).
ListShare ==
    /\ \E p \in Procs :
        LET l == loaders[p]
        IN  /\ l.pc = "list"
            /\ loaders' = [loaders EXCEPT ![p] =
                   IF discovery_env.list[Shares[l.share]] = "ok"
                   THEN [l EXCEPT !.pc = "read", !.idx = 1]
                   ELSE next_share(l)]
    /\ UNCHANGED <<agent_vars, turn_vars, discovery_env, scratch>>

\* Lines 99-112 and 139-152: the next file of the share is skipped (other
\* suffix, content None, read raises) or written to its scratch file.
ReadCandidate ==
    /\ \E p \in Procs :
        LET l == loaders[p]
        IN  /\ l.pc = "read"
            /\ IF l.idx > Len(ShareFiles(Shares[l.share]))
               THEN /\ loaders' = [loaders EXCEPT ![p] = next_share(l)]
                    /\ UNCHANGED scratch
               ELSE IF \/ ~is_agent_file(current(l).file)
                       \/ discovery_env.load[current(l).id] \in {"none", "read_raise"}
               THEN /\ loaders' = [loaders EXCEPT ![p].idx = l.idx + 1]
                    /\ UNCHANGED scratch
               ELSE /\ scratch' = scratch \cup {temp_file(current(l))}
                    /\ loaders' = [loaders EXCEPT ![p] =
                           [l EXCEPT !.pc = "exec",
                                     !.written = l.written \cup {temp_file(current(l))}]]
    /\ UNCHANGED <<agent_vars, turn_vars, discovery_env>>

\* Variant: an exception while a candidate is loaded ends the loop over its
\* share.
ExecCandidate_Abort ==
    /\ \E p \in Procs :
        LET l == loaders[p]
        IN  /\ l.pc = "exec"
            /\ loaders' = [loaders EXCEPT ![p] =
                   IF \/ temp_file(current(l)) \notin scratch
                      \/ discovery_env.load[current(l).id] = "exec_raise"
                   THEN next_share(l)
                   ELSE [l EXCEPT !.pc = "remove",
                                  !.declared = register(l.declared, current(l))]]
    /\ UNCHANGED <<agent_vars, turn_vars, discovery_env, scratch>>

\* Lines 114-127 and 154-184: the scratch file is executed as a module and
\* its agent instantiated and registered; an exception (the file is gone,
\* its code or the constructor raises) skips the candidate (lines 129, 188).
ExecCandidate ==
    /\ \E p \in Procs :
        LET l == loaders[p]
        IN  /\ l.pc = "exec"
            /\ loaders' = [loaders EXCEPT ![p] =
                   IF \/ temp_file(current(l)) \notin scratch
                      \/ discovery_env.load[current(l).id] = "exec_raise"
                   THEN [l EXCEPT !.pc = "read", !.idx = l.idx + 1]
                   ELSE [l EXCEPT !.pc = "remove",
                                  !.declared = register(l.declared, current(l))]]
    /\ UNCHANGED <<agent_vars, turn_vars, discovery_env, scratch>>

\* Lines 127 and 186: os.remove(temp_file); when the file is gone the
\* exception is caught by the handler of the candidate.
RemoveScratch ==
    /\ \E p \in Procs :
        LET l == loaders[p]
        IN  /\ l.pc = "remove"
            /\ scratch' = scratch \ {temp_file(current(l))}
            /\ loaders' = [loaders EXCEPT ![p] =
                   [l EXCEPT !.pc = "read", !.idx = l.idx + 1]]
    /\ UNCHANGED <<agent_vars, turn_vars, discovery_env>>

NextDiscovery ==
    \/ ListBundled
    \/ LoadBundled
    \/ ConstructStorage
    \/ ListShare
    \/ ReadCandidate
    \/ ExecCandidate
    \/ RemoveScratch

\* The turn of a request that waits for its registry (main, line 624).
TurnWaiting ==
    /\ InitTurn({Request(PyStr(<<"hello">>), <<>>, NoneV)}, {HealthyStore},
                {DefaultMaxRetries})
    /\ known_agents = BundledAgents \cup {"ContextMemory"}

\* One request runs discovery, whatever listing and loading do.
InitDiscovery ==
    /\ TurnWaiting
    /\ discovery_env \in Environments
    /\ loaders = [p \in Procs |-> IF p = 1 THEN LoaderStart ELSE LoaderOff]
    /\ scratch = {}
    /\ AgentsIdle

SpecDiscovery == InitDiscovery /\ [][NextDiscovery]_vars

\* Two requests run discovery at the same time, in one process or in two
\* that share /tmp, and nothing fails.
InitConcurrent ==
    /\ TurnWaiting
    /\ discovery_env = HealthyEnvironment
    /\ loaders = [p \in Procs |-> LoaderStart]
    /\ scratch = {}
    /\ AgentsIdle

SpecConcurrent == InitConcurrent /\ [][NextDiscovery]_vars


\* ------------------------------------------------- the agents and their memory
\* storage_manager.read_json(): the document stored under the key, parsed
\* afresh by each call (the store keeps no object in the process).
read_json == document

\* storage_manager.write_json(data): the document under the key is replaced.
write_json(data) == document' = data

not(d) == DOMAIN d = {}
max(a, b) == IF a > b THEN a ELSE b
min(a, b) == IF a < b THEN a ELSE b

CanPerform == performed < MaxPerforms

\* perform of request p ends: what it was called with and how it ended.
Ends(p, c, a, st, w) ==
    /\ workers' = [workers EXCEPT ![p] =
                      Worker("idle", c, a, @.memory_data, st, w, @.saved)]
    /\ performed' = performed + 1

\* GameWorldAgent.get_world_state (perform with action 'get_world_state').
get_world_state ==
    /\ CanPerform
    /\ LET memory_data == read_json
           world_state == memory_data.world_state
       IN  IF not(world_state)
           THEN /\ write_json([memory_data EXCEPT !.world_state = InitialWorldState])
                /\ Ends(1, "get_world_state", EmptyMap, "returned", TRUE)
           ELSE /\ UNCHANGED document
                /\ Ends(1, "get_world_state", EmptyMap, "returned", FALSE)
    /\ UNCHANGED <<turn_vars, discovery_vars>>

\* The events advance_time may draw at the hour it arrives at.
timed_events(time_of_day) ==
    CASE time_of_day = 0 -> {<<>>, <<"mysterious_visitor">>}
      [] time_of_day = 6 -> {<<>>, <<"merchant_arrival">>}
      [] time_of_day = 18 -> {<<>>, <<"monster_activity_increase">>}
      [] OTHER -> {<<>>}

\* seasons[(seasons.index(season) + 1) % 4]
next_season(season) ==
    LET i == CHOOSE k \in 1..4 : seasons[k] = season
    IN  seasons[(i % 4) + 1]

\* The world state advance_time computes for the given hours, before the
\* events of the hour are drawn.
advanced(world_state, hours) ==
    LET time_of_day == (dict_get(world_state, "time_of_day", 12) + hours) % 24
        timed == dict_set(world_state, "time_of_day", time_of_day)
        day_count == dict_get(world_state, "day_count", 1) + 1
        dayed == IF time_of_day < hours
                 THEN dict_set(timed, "day_count", day_count)
                 ELSE timed
    IN  IF time_of_day < hours /\ day_count % 30 = 0
        THEN dict_set(dayed, "season",
                      next_season(dict_get(world_state, "season", "spring")))
        ELSE dayed

\* GameWorldAgent.advance_time.  The result is built from
\* world_state['day_count'] and world_state['season'] after the write.
advance_time ==
    /\ CanPerform
    /\ \E h \in HoursInputs :
        LET hours == IF h.some THEN h.v ELSE 1
            memory_data == read_json
            world_state == memory_data.world_state
            args == [hours |-> hours]
        IN  IF not(world_state)
            THEN /\ UNCHANGED document
                 /\ Ends(1, "advance_time", args, "returned", FALSE)
            ELSE \E events \in timed_events(advanced(world_state, hours).time_of_day) :
                    LET updated == dict_set(advanced(world_state, hours),
                                            "active_events", events)
                    IN  /\ write_json([memory_data EXCEPT !.world_state = updated])
                        /\ Ends(1, "advance_time", args,
                                IF {"day_count", "season"} \subseteq DOMAIN updated
                                THEN "returned" ELSE "raised", TRUE)
    /\ UNCHANGED <<turn_vars, discovery_vars>>

\* GameWorldAgent.change_weather.
change_weather ==
    /\ CanPerform
    /\ \E w \in WeatherInputs :
       \E new_weather \in IF w.some THEN {w.v} ELSE weather_types :
        LET memory_data == read_json
            world_state == memory_data.world_state
            updated == dict_set(world_state, "weather", new_weather)
        IN  /\ write_json([memory_data EXCEPT !.world_state = updated])
            /\ Ends(1, "change_weather", [weather |-> new_weather], "returned", TRUE)
    /\ UNCHANGED <<turn_vars, discovery_vars>>

\* The effects of an event on the world (trigger_event, lines 205-213).
event_effects(world_state, event_type) ==
    LET stability == dict_get(world_state, "world_stability", 75)
    IN  CASE event_type = "dragon_sighting" ->
               dict_set(dict_set(world_state, "world_threats",
                                 Append(dict_get(world_state, "world_threats", <<>>),
                                        "ancient_dragon")),
                        "world_stability", max(0, stability - 10))
          [] event_type = "festival" ->
               dict_set(world_state, "world_stability", min(100, stability + 5))
          [] event_type = "plague_outbreak" ->
               dict_set(world_state, "world_stability", max(0, stability - 15))
          [] OTHER -> world_state

\* GameWorldAgent.trigger_event.  An event is kept by its type.  The result
\* is built from world_state['world_stability'] after the write.
trigger_event ==
    /\ CanPerform
    /\ \E e \in EventInputs :
       \E event_type \in IF e.some THEN {e.v} ELSE world_events :
        LET memory_data == read_json
            world_state == memory_data.world_state
            active_events == Append(dict_get(world_state, "active_events", <<>>),
                                    event_type)
            updated == event_effects(dict_set(world_state, "active_events",
                                              active_events), event_type)
        IN  /\ write_json([memory_data EXCEPT !.world_state = updated])
            /\ Ends(1, "trigger_event", [event_type |-> event_type],
                    IF "world_stability" \in DOMAIN updated
                    THEN "returned" ELSE "raised", TRUE)
    /\ UNCHANGED <<turn_vars, discovery_vars>>

\* GameWorldAgent.update_faction_standing.
update_faction_standing ==
    /\ CanPerform
    /\ \E parameters \in FactionInputs :
        LET memory_data == read_json
            world_state == memory_data.world_state
            faction_standings == dict_get(world_state, "faction_standings", EmptyMap)
            faction == parameters.faction.v
            old_standing == dict_get(faction_standings, faction, 50)
            new_standing == max(0, min(100, old_standing + parameters.change))
            threatened ==
                IF new_standing < 20
                THEN dict_set(world_state, "world_threats",
                              Append(dict_get(world_state, "world_threats", <<>>),
                                     <<faction, "_hostility">>))
                ELSE world_state
            updated == dict_set(threatened, "faction_standings",
                                dict_set(faction_standings, faction, new_standing))
        IN  IF ~parameters.faction.some
            THEN /\ UNCHANGED document
                 /\ Ends(1, "update_faction", EmptyMap, "returned", FALSE)
            ELSE /\ write_json([memory_data EXCEPT !.world_state = updated])
                 /\ Ends(1, "update_faction", [faction |-> faction], "returned", TRUE)
    /\ UNCHANGED <<turn_vars, discovery_vars>>

\* GameWorldAgent.spawn_entity: the store is not touched.
spawn_entity ==
    /\ CanPerform
    /\ UNCHANGED document
    /\ Ends(1, "spawn_entity", EmptyMap, "returned", FALSE)
    /\ UNCHANGED <<turn_vars, discovery_vars>>

\* perform with an action it does not know: {"error": "Unknown action"}.
unknown_action ==
    /\ CanPerform
    /\ UNCHANGED document
    /\ Ends(1, "unknown", EmptyMap, "returned", FALSE)
    /\ UNCHANGED <<turn_vars, discovery_vars>>

\* The calls the model may make of GameWorld on one key, one after another.
NextWorld ==
    \/ get_world_state
    \/ advance_time
    \/ change_weather
    \/ trigger_event
    \/ update_faction_standing
    \/ spawn_entity
    \/ unknown_action

\* The turn waits, no discovery runs, the key holds no document yet.
InitAgents ==
    /\ TurnWaiting
    /\ DiscoveryIdle
    /\ AgentsIdle

SpecWorld == InitAgents /\ [][NextWorld]_vars


\* get_or_create_npc, lines 112-127: the data of an NPC met for the first
\* time (what is drawn at random or from templates is left out).
new_npc(npc_name) ==
    [name |-> npc_name, disposition |-> 50, met_player |-> FALSE,
     interaction_count |-> 0, memories |-> <<>>]

\* NPCDialogueAgent.get_or_create_npc: the document as it is stored when the
\* method returns, and the npc_data it returns to perform.
get_or_create_npc(npc_name) ==
    LET memory_data == read_json
        npcs == memory_data.npcs
    IN  IF npc_name \notin DOMAIN npcs
        THEN [stored |-> [memory_data EXCEPT
                             !.npcs = dict_set(npcs, npc_name, new_npc(npc_name))],
              npc_data |-> new_npc(npc_name)]
        ELSE [stored |-> memory_data,
              npc_data |-> [npcs[npc_name] EXCEPT
                               !.interaction_count = @ + 1]]

\* NPCDialogueAgent.generate_dialogue: what it does to the npc_data it is
\* given, and the emotion of the response.
generate_dialogue(npc_data, player_action) ==
    LET disposition == npc_data.disposition
    IN  CASE player_action = "greet" ->
               [npc_data |-> [npc_data EXCEPT !.met_player = TRUE],
                emotion |-> "neutral"]
          [] player_action = "threaten" ->
               [npc_data |-> [npc_data EXCEPT !.disposition = max(0, disposition - 10)],
                emotion |-> IF disposition < 30 THEN "afraid" ELSE "angry"]
          [] player_action = "compliment" ->
               [npc_data |-> [npc_data EXCEPT !.disposition = min(100, disposition + 5)],
                emotion |-> "happy"]
          [] OTHER -> [npc_data |-> npc_data, emotion |-> "neutral"]

\* memories[-10:]
last10(memories) ==
    IF Len(memories) > 10
    THEN SubSeq(memories, Len(memories) - 9, Len(memories))
    ELSE memories

\* NPCDialogueAgent.update_npc_memory on the stored document: the document
\* it writes.
update_npc_memory(stored, npc_name, player_action, emotion) ==
    LET memory_data == stored
        npcs == memory_data.npcs
        npc_data == npcs[npc_name]
        memory_entry == [action |-> player_action, emotion |-> emotion]
        remembered == [npc_data EXCEPT
                          !.memories = last10(Append(npc_data.memories, memory_entry))]
    IN  IF npc_name \in DOMAIN npcs
        THEN [memory_data EXCEPT !.npcs = dict_set(npcs, npc_name, remembered)]
        ELSE memory_data

\* NPCDialogueAgent.perform.
NPCDialoguePerform ==
    /\ CanPerform
    /\ \E npc_name \in NpcNames, player_action \in PlayerActions :
        LET found == get_or_create_npc(npc_name)
            dialogue_response == generate_dialogue(found.npc_data, player_action)
        IN  /\ write_json(update_npc_memory(found.stored, npc_name, player_action,
                                            dialogue_response.emotion))
            /\ Ends(1, "NPCDialogue",
                    [npc_name |-> npc_name, player_action |-> player_action,
                     npc |-> dialogue_response.npc_data],
                    "returned", TRUE)
    /\ UNCHANGED <<turn_vars, discovery_vars>>

NextNPC == NPCDialoguePerform

SpecNPC == InitAgents /\ [][NextNPC]_vars

\* What a finished save leaves in the record of its request.
SavedQuest(id) == [kind |-> "quest", id |-> id, combat_event |-> "", damage |-> 0]
SavedCombat(c) ==
    [kind |-> "combat", id |-> 0, combat_event |-> c.combat_event,
     damage |-> c.damage]

\* QuestGeneratorAgent.perform up to save_quest: the history is read and the
\* quest is generated (it is kept by a number of its own).
QuestGeneratorPerform(p) ==
    /\ CanPerform
    /\ workers[p].pc = "idle"
    /\ workers' = [workers EXCEPT ![p] =
                      Worker("save_read", "QuestGenerator",
                             SavedQuest(performed + 1), read_json, "none", FALSE,
                             @.saved)]
    /\ performed' = performed + 1
    /\ UNCHANGED <<turn_vars, discovery_vars, document>>

\* save_quest, line 448: memory_data = self.storage_manager.read_json()
SaveQuestRead(p) ==
    /\ workers[p].pc = "save_read"
    /\ workers' = [workers EXCEPT ![p].pc = "save_write",
                                  ![p].memory_data = read_json]
    /\ UNCHANGED <<turn_vars, discovery_vars, document, performed>>

\* save_quest, lines 449-458: the quest is appended to the active quests of
\* the document read and the document is written.
SaveQuestWrite(p) ==
    /\ workers[p].pc = "save_write"
    /\ LET memory_data == workers[p].memory_data
           active_quests == Append(memory_data.active_quests, workers[p].args.id)
       IN  write_json([memory_data EXCEPT !.active_quests = active_quests])
    /\ workers' = [workers EXCEPT ![p] =
                      Worker("idle", @.call, @.args, @.memory_data, "returned",
                             TRUE, Append(@.saved, @.args))]
    /\ UNCHANGED <<turn_vars, discovery_vars, performed>>

\* CombatNarratorAgent.perform up to update_combat_stats: the preferences
\* are read and the narration is composed.
CombatNarratorPerform(p) ==
    /\ CanPerform
    /\ workers[p].pc = "idle"
    /\ \E c \in CombatInputs :
        workers' = [workers EXCEPT ![p] =
                       Worker("stats_read", "CombatNarrator", SavedCombat(c),
                              read_json, "none", FALSE, @.saved)]
    /\ performed' = performed + 1
    /\ UNCHANGED <<turn_vars, discovery_vars, document>>

\* update_combat_stats, line 298: memory_data = self.storage_manager.read_json()
UpdateCombatStatsRead(p) ==
    /\ workers[p].pc = "stats_read"
    /\ workers' = [workers EXCEPT ![p].pc = "stats_write",
                                  ![p].memory_data = read_json]
    /\ UNCHANGED <<turn_vars, discovery_vars, document, performed>>

\* update_combat_stats, lines 299-322, for the events of CombatInputs.
counted(combat_stats, combat_event, damage) ==
    CASE combat_event = "attack" ->
           [combat_stats EXCEPT !.total_damage_dealt = @ + damage]
      [] combat_event = "miss" -> [combat_stats EXCEPT !.misses = @ + 1]
      [] OTHER -> combat_stats

\* update_combat_stats, lines 299-325: the statistics of the document read
\* are updated and the document is written.
UpdateCombatStatsWrite(p) ==
    /\ workers[p].pc = "stats_write"
    /\ LET memory_data == workers[p].memory_data
           combat_stats == IF not(memory_data.combat_stats) THEN NewCombatStats
                           ELSE memory_data.combat_stats
       IN  write_json([memory_data EXCEPT
                          !.combat_stats = counted(combat_stats,
                                                   workers[p].args.combat_event,
                                                   workers[p].args.damage)])
    /\ workers' = [workers EXCEPT ![p] =
                      Worker("idle", @.call, @.args, @.memory_data, "returned",
                             TRUE, Append(@.saved, @.args))]
    /\ UNCHANGED <<turn_vars, discovery_vars, performed>>

\* Two requests of one player perform QuestGenerator and CombatNarrator on
\* the player's key at the same time.
NextMemory ==
    \E p \in Procs :
        \/ QuestGeneratorPerform(p)
        \/ SaveQuestRead(p)
        \/ SaveQuestWrite(p)
        \/ CombatNarratorPerform(p)
        \/ UpdateCombatStatsRead(p)
        \/ UpdateCombatStatsWrite(p)

SpecMemory == InitAgents /\ [][NextMemory]_vars


\* =================================================================== claims
EmptyPayload == <<J_EMPTY>>

\* The text of the tool result a log entry records.
logged_result(entry) == SubSeq(entry, 4, Len(entry))

\* A step in which agent.perform returned: one log entry was added.
AgentReturned == pc = "invoke" /\ Len(agent_logs') = Len(agent_logs) + 1

\* C1: every turn ends after at most max_retries iterations of the dispatch
\* loop, whatever the model and the tools do.
C1_IterationsWithinBudget == iterations <= max_retries

\* C2: the failed model calls of a turn never exceed max_retries, no model
\* call follows the max_retries-th failure, and a turn in which every call
\* failed made exactly max_retries calls.
C2_FailedCallsBounded ==
    /\ [](failed_calls <= max_retries)
    /\ []((pc = "done" /\ model_calls > 0 /\ failed_calls = model_calls)
            => model_calls = max_retries)
    /\ [][failed_calls >= max_retries => model_calls' = model_calls]_vars

C2_Witness ==
    /\ pc = "done"
    /\ max_retries = DefaultMaxRetries
    /\ failed_calls = DefaultMaxRetries
    /\ model_calls = DefaultMaxRetries

\* C3: after max_retries (3) consecutive failed model calls get_response
\* returns the 'Service temporarily unavailable' narrative, '{}' and an empty
\* agent log.
C3_ExhaustionIsUnavailable ==
    (/\ pc = "done"
     /\ max_retries = DefaultMaxRetries
     /\ model_calls = max_retries
     /\ failed_calls = max_retries)
    => result = Triple(MSG_UNAVAILABLE, EmptyPayload, <<>>)

\* C4: when the model selects a name that is not registered the turn ends at
\* once with ("Agent 'N' does not exist", "{}", ""); no tool is invoked, the
\* retry counter is unchanged and no model call follows.
C4_UnknownAgentEndsTurn ==
    /\ [][(/\ pc = "loop"
           /\ assistant_msg'.some
           /\ assistant_msg'.v.function_call.some
           /\ assistant_msg'.v.function_call.v.name \notin known_agents)
          => (/\ pc' = "done"
              /\ result' = Triple(<<"Agent '", assistant_msg'.v.function_call.v.name,
                                    "' does not exist">>, EmptyPayload, <<>>)
              /\ tool_invocations' = tool_invocations
              /\ retry_count' = retry_count
              /\ failed_calls' = failed_calls)]_vars
    /\ [][pc = "done" => (model_calls' = model_calls /\
                          tool_invocations' = tool_invocations)]_vars

C4_Witness ==
    /\ pc = "done"
    /\ result = Triple(<<"Agent '", "DoesNotExist", "' does not exist">>,
                       EmptyPayload, <<>>)
    /\ tool_invocations = 1

\* C5: when the invoked tool raises, the turn ends in that step with a
\* narrative starting 'Error executing agent' and payload '{}'; the tool is
\* not invoked again, no model call is made and no retry is counted.
C5_AgentErrorEndsTurn ==
    [][(pc = "invoke" /\ ~AgentReturned)
       => (/\ pc' = "done"
           /\ result'.narrative # <<>>
           /\ result'.narrative[1] = "Error executing agent: "
           /\ result'.game_data = EmptyPayload
           /\ tool_invocations' = tool_invocations
           /\ model_calls' = model_calls
           /\ retry_count' = retry_count
           /\ failed_calls' = failed_calls)]_vars

C5_Witness ==
    /\ pc = "done"
    /\ result = Triple(<<"Error executing agent: ", "boom">>, EmptyPayload, <<>>)
    /\ retry_count = 0

\* A tool result that asks for another model turn, as the claims word it: a
\* JSON object with a truthy error, status 'incomplete', or
\* requires_additional_action true.
AsksFollowUp(text) ==
    LET j == json_loads(text)
    IN  /\ j.kind = "obj"
        /\ \/ ("error" \in DOMAIN j.f /\ Truthy(j.f["error"]))
           \/ ("status" \in DOMAIN j.f /\ j.f["status"] = Str("incomplete"))
           \/ ("requires_additional_action" \in DOMAIN j.f /\
               j.f["requires_additional_action"] = Bool(TRUE))

\* C6: when the tool's result asks for follow-up the turn is not finalised:
\* the loop is back at its head with budget left, so that the next step is a
\* model call, and the message list ends with the tool's function-role turn.
C6_FollowUpLoopsBack ==
    [][(AgentReturned /\ AsksFollowUp(logged_result(agent_logs'[Len(agent_logs')])))
       => (/\ pc' = "loop"
           /\ result' = NoResult
           /\ retry_count' < max_retries
           /\ messages' = Append(messages,
                 Message("function", agent_name,
                         PyStr(logged_result(agent_logs'[Len(agent_logs')])))))]_vars

\* A second tool is being invoked after the first one asked for follow-up.
C6_Witness ==
    /\ pc = "invoke"
    /\ tool_invocations = 2
    /\ needs_follow_up
    /\ messages[Len(messages)].role = "function"

\* C7: when the tool's result does not ask for follow-up, the next model call
\* is the follow-up call: when it succeeds the turn ends with its decoded
\* content, and no tool is invoked even if the answer carries a function call.
C7_PlainResultFinalCall ==
    /\ [][(AgentReturned /\ ~AsksFollowUp(logged_result(agent_logs'[Len(agent_logs')])))
          => (pc' = "final" /\ result' = NoResult)]_vars
    /\ [][(pc = "final" /\ assistant_msg'.some)
          => LET content == IF assistant_msg'.v.content.some
                            THEN assistant_msg'.v.content.v ELSE <<>>
                 parsed == parse_response_with_game_data(content)
             IN  /\ pc' = "done"
                 /\ result' = Triple(parsed.narrative, json_dumps(parsed.game_data),
                                     join(agent_logs))
                 /\ tool_invocations' = tool_invocations
                 /\ model_calls' = model_calls + 1]_vars

\* The follow-up answer carried a function call and the turn ended with its
\* content.
C7_Witness ==
    /\ pc = "done"
    /\ assistant_msg.some
    /\ assistant_msg.v.function_call.some
    /\ assistant_msg.v.function_call.v.name \in known_agents
    /\ result.narrative = <<"The", WS, "dragon">>
    /\ tool_invocations = 1

\* C8: when the first model call answers without a function call, it is the
\* only model call, no tool is invoked, and the result is the decoded
\* narrative, the serialized payload and an empty agent log.
C8_DirectReply ==
    /\ [][(/\ pc = "loop"
           /\ model_calls = 0
           /\ assistant_msg'.some
           /\ ~assistant_msg'.v.function_call.some)
          => LET content == IF assistant_msg'.v.content.some
                            THEN assistant_msg'.v.content.v ELSE <<>>
                 parsed == parse_response_with_game_data(content)
             IN  /\ pc' = "done"
                 /\ model_calls' = 1
                 /\ tool_invocations' = 0
                 /\ result' = Triple(parsed.narrative, json_dumps(parsed.game_data),
                                     <<>>)]_vars
    /\ [][pc = "done" => (model_calls' = model_calls /\
                          tool_invocations' = tool_invocations /\
                          result' = result)]_vars

\* A first answer with a payload was decoded: narrative trimmed, payload
\* re-serialized.
C8_Witness ==
    /\ pc = "done"
    /\ model_calls = 1
    /\ tool_invocations = 0
    /\ assistant_msg.some
    /\ assistant_msg.v.content = Some(<<WS, "The", WS, DELIM, WS, J_EVENT_COMPACT, WS>>)
    /\ result = Triple(<<"The">>, <<J_EVENT>>, <<>>)

\* The names the specification calls identity-sensitive: the listed names and
\* the names the bundled world, NPC, quest and combat agents register under.
IdentitySensitive == IDENTITY_AGENTS \cup BundledAgents

\* C9: every invocation of an identity-sensitive tool, the bundled agents
\* under their registered names included, receives user_guid equal to the
\* active identity.
C9_IdentitySupplied ==
    (pc = "invoke" /\ agent_name \in IdentitySensitive)
    => (/\ "user_guid" \in DOMAIN sanitized_parameters
        /\ sanitized_parameters["user_guid"] = Str(user_guid))

\* C10: a tool outside the identity-sensitive list is invoked without a
\* user_guid parameter, so that no invocation receives a user_guid other than
\* the active identity.
C10_NoForeignIdentity ==
    pc = "invoke"
    => (/\ agent_name \notin IDENTITY_AGENTS
            => "user_guid" \notin DOMAIN sanitized_parameters
        /\ "user_guid" \in DOMAIN sanitized_parameters
            => sanitized_parameters["user_guid"] = Str(user_guid))

\* A payload nothing can be recovered from: absent, not valid JSON, or valid
\* JSON that is not an object.
Unrecoverable(payload) ==
    \/ ~payload.some
    \/ json_loads(strip(payload.v)).kind # "obj"

Resolved == pc \in {"loop", "done"}

\* The utterance, trimmed.
Utterance == strip(py_str(request.user_input))

\* The GUID-shaped content of the first entry of the supplied history, if any.
HeadGuid ==
    LET h == request.conversation_history
    IN  IF /\ Len(h) > 0
           /\ h[1].kind = "dict"
           /\ h[1].has_content
           /\ h[1].content.t = "str"
           /\ Len(strip(h[1].content.v)) = 1
           /\ strip(h[1].content.v)[1] \in GuidShaped
        THEN Some(strip(h[1].content.v)[1])
        ELSE NoneV

\* The first entry of the supplied history is a user turn that is a GUID.
HeadSignal ==
    /\ HeadGuid.some
    /\ request.conversation_history[1].has_role
    /\ request.conversation_history[1].role = "user"

\* The request carries a non-empty explicit identity field.
HasField == request.user_guid.some /\ request.user_guid.v # ""

\* C12: when the whole utterance, trimmed, is a GUID G and no different GUID
\* heads the history, get_response calls neither the model nor a tool, leaves
\* G as the active identity and returns the world-initialization triple.
C12_BootstrapShortCircuit ==
    (/\ Resolved
     /\ Len(Utterance) = 1
     /\ Utterance[1] \in GuidShaped
     /\ HeadGuid.some => HeadGuid.v = Utterance[1])
    => (/\ pc = "done"
        /\ model_calls = 0
        /\ tool_invocations = 0
        /\ user_guid = Utterance[1]
        /\ result = Triple(MSG_WORLD_INIT, <<J_WORLD_INIT>>, <<>>))

\* C13: with an explicit identity field, an utterance that is a different GUID
\* or a labeled GUID, and no GUID heading the history, the active identity
\* (which main returns as user_guid) is the field's value.
C13_FieldBeatsUtterance ==
    (/\ Resolved
     /\ HasField
     /\ \/ Len(Utterance) = 1 /\ Utterance[1] \in GuidShaped
        \/ Len(Utterance) >= 3 /\ Utterance[1] \in {"guid", "GUID"}
                               /\ Utterance[Len(Utterance)] \in GuidShaped
     /\ Utterance[Len(Utterance)] # request.user_guid.v
     /\ ~HeadGuid.some)
    => user_guid = request.user_guid.v

\* C14: when the first history entry is a GUID-shaped identity signal G, the
\* active identity of the turn is G, whatever the field and the utterance are.
C14_HistoryGuidWins ==
    (Resolved /\ HeadSignal) => user_guid = HeadGuid.v

\* The snapshots a recall under the given identity leaves, by what the store
\* does: the document of the key, or a fixed placeholder.
RecallOf(key) == <<"memory of ", key>>

SpecificFor(guid) ==
    IF "ContextMemory" \notin known_agents THEN MSG_NO_SPECIFIC
    ELSE IF store.user = "raise" THEN MSG_MEMORY_FAILED
    ELSE IF store.user = "empty" THEN MSG_NO_SPECIFIC
    ELSE RecallOf(guid)

SharedGlobal ==
    IF "ContextMemory" \notin known_agents THEN MSG_NO_SHARED
    ELSE IF store.shared = "raise" THEN MSG_MEMORY_FAILED
    ELSE IF store.shared = "empty" THEN MSG_NO_SHARED
    ELSE RecallOf("None")

\* C15: at every point of the turn the specific snapshot is the one fetched
\* under the active identity and the shared snapshot the one fetched under
\* the global context, and the assembled prompt embeds these two, each in its
\* own section.
C15_SnapshotsFollowIdentity ==
    /\ user_memory = SpecificFor(user_guid)
    /\ shared_memory = SharedGlobal
    /\ pc = "loop" =>
          /\ messages[1].role = "system"
          /\ messages[1].content =
                PyStr(system_prompt(SharedGlobal, SpecificFor(user_guid)))

\* The prompt is assembled after main and then get_response changed the
\* identity, with a store that answers.
C15_Witness ==
    /\ pc = "loop"
    /\ HasField
    /\ HeadSignal
    /\ request.user_guid.v # HeadGuid.v
    /\ user_guid = HeadGuid.v
    /\ "ContextMemory" \in known_agents
    /\ store = HealthyStore
    /\ user_memory = RecallOf(user_guid)
    /\ shared_memory # user_memory

\* C16: a recall that fails leaves the fixed failure text in its snapshot, a
\* failure of the shared recall does not keep the specific recall from being
\* made, both snapshots are texts, and the turn goes on to the assembly of the
\* prompt: no failure of the store ends it.
C16_MemoryFailureContained ==
    /\ shared_memory \in Seq(STRING)
    /\ user_memory \in Seq(STRING)
    /\ "ContextMemory" \in known_agents =>
          /\ store.shared = "raise" => shared_memory = MSG_MEMORY_FAILED
          /\ store.user = "raise" => user_memory = MSG_MEMORY_FAILED
          /\ store.user = "data" => user_memory = RecallOf(user_guid)
    /\ (pc = "done" /\ result.narrative = MSG_CRITICAL) =>
          /\ Len(request.conversation_history) > 0
          /\ request.conversation_history[1].kind # "dict"

\* The prompt is assembled although the shared recall failed, with the
\* specific snapshot fetched all the same.
C16_Witness ==
    /\ pc = "loop"
    /\ "ContextMemory" \in known_agents
    /\ store.shared = "raise"
    /\ store.user = "data"
    /\ shared_memory = MSG_MEMORY_FAILED
    /\ user_memory = RecallOf(user_guid)
    /\ user_guid # DEFAULT_USER_GUID

\* The history turns of the assembled list: what stands between the system
\* turn and the new user turn.
HistoryTurns == SubSeq(messages, 2, Len(messages) - 1)

\* The entries of a sequence, normalized one by one.
Normalized(h) == [i \in 1..Len(h) |-> ensure_string_content(h[i])]

\* The last n entries of a sequence.
Last(h, n) == IF Len(h) > n THEN SubSeq(h, Len(h) - n + 1, Len(h)) ELSE h

\* The first entry of the supplied history has a content that is exactly a
\* GUID, whatever its role is and whether it has one.
HeadExactGuid ==
    LET h == request.conversation_history
    IN  /\ Len(h) > 0
        /\ h[1].kind = "dict"
        /\ h[1].has_content
        /\ h[1].content.t = "str"
        /\ Len(h[1].content.v) = 1
        /\ h[1].content.v[1] \in GuidShaped

\* C17: a first history entry whose content is exactly a GUID, whatever its
\* other fields are, is left out of the assembled list, the entries after it
\* are kept in order, and the GUID is the active identity.
C17_GuidEntryOmitted ==
    (Resolved /\ HeadExactGuid)
    => (/\ user_guid = request.conversation_history[1].content.v[1]
        /\ pc = "loop" =>
              HistoryTurns =
                  Normalized(Last(Tail(request.conversation_history), HistoryLimit)))

\* The system turn comes first and the new user turn last.
Framed ==
    /\ messages[1].role = "system"
    /\ messages[Len(messages)] = Message("user", "", PyStr(py_str(request.user_input)))

\* C18 as stated: the history turns of the assembled list are the last 20
\* entries of the supplied history, in order, between the system turn and
\* the new user turn.
C18_Last20Stated ==
    pc = "loop" =>
        /\ Framed
        /\ Len(HistoryTurns) <= HistoryLimit
        /\ HistoryTurns = Normalized(Last(request.conversation_history, HistoryLimit))

\* A sequence without its first entry when that is a user turn whose content,
\* trimmed, is a GUID.
WithoutSignal(h) ==
    IF /\ Len(h) > 0
       /\ h[1].kind = "dict"
       /\ h[1].has_role
       /\ h[1].role = "user"
       /\ h[1].has_content
       /\ h[1].content.t # "none"
       /\ Len(strip(h[1].content.v)) = 1
       /\ strip(h[1].content.v)[1] \in GuidShaped
    THEN Tail(h)
    ELSE h

\* C18: the history turns of the assembled list are at most 20: the last 20
\* entries of the supplied history, in order, without the first of these when
\* it is a user turn that is a GUID, between the system turn and the new
\* user turn.
C18_Last20 ==
    pc = "loop" =>
        /\ Framed
        /\ Len(HistoryTurns) <= HistoryLimit
        /\ HistoryTurns =
              Normalized(WithoutSignal(Last(request.conversation_history, HistoryLimit)))

\* A history of 25 entries assembled into its last 20.
C18_Witness ==
    /\ pc = "loop"
    /\ Len(request.conversation_history) = 25
    /\ Len(HistoryTurns) = HistoryLimit
    /\ HistoryTurns[1] = Message("assistant", "", PyStr(<<"turn", "6">>))
    /\ HistoryTurns[HistoryLimit] = Message("user", "", PyStr(<<"turn", "25">>))

\* C19: every message of the list a model call is made with has a content
\* that is a string.
C19_ContentIsString ==
    \A i \in DOMAIN messages : messages[i].content.t = "str"

\* The list holds a history with null, mapless and contentless entries and
\* the result of a tool, and a model call is about to be made with it.
C19_Witness ==
    /\ pc \in {"loop", "final"}
    /\ request.conversation_history = MixedHistory
    /\ Len(messages) > Len(MixedHistory) + 2
    /\ messages[Len(messages)].role = "function"
    /\ messages[3] = Message("user", "", PyStr(<<>>))

\* No entry of the history was left out of the assembled list.
AllKept == pc = "loop" /\ Len(messages) = Len(request.conversation_history) + 2

\* C20 as stated: a missing role becomes 'user', a content that is missing or
\* is not a string becomes the empty string, a null entry becomes the empty
\* user turn.
C20_NormalizeStated ==
    AllKept =>
        \A i \in DOMAIN request.conversation_history :
            LET entry == request.conversation_history[i]
                turn == messages[i + 1]
            IN  /\ (entry.kind = "dict" /\ ~entry.has_role) => turn.role = "user"
                /\ (entry.kind = "dict" /\ (~entry.has_content \/ entry.content.t # "str"))
                      => turn.content = PyStr(<<>>)
                /\ entry.kind = "none" => turn = Message("user", "", PyStr(<<>>))

\* C20: a missing role becomes 'user', a content that is missing or null
\* becomes the empty string, a content that is a number or a boolean becomes
\* its string form, a null entry becomes the empty user turn.
C20_Normalize ==
    AllKept =>
        \A i \in DOMAIN request.conversation_history :
            LET entry == request.conversation_history[i]
                turn == messages[i + 1]
            IN  /\ (entry.kind = "dict" /\ ~entry.has_role) => turn.role = "user"
                /\ (entry.kind = "dict" /\ (~entry.has_content \/ entry.content.t = "none"))
                      => turn.content = PyStr(<<>>)
                /\ (entry.kind = "dict" /\ entry.has_content
                        /\ entry.content.t \in {"num", "bool"})
                      => turn.content = PyStr(py_str(entry.content))
                /\ entry.kind = "none" => turn = Message("user", "", PyStr(<<>>))

\* The mixed history normalized: the null entry, the number without a role
\* and the boolean.
C20_Witness ==
    /\ AllKept
    /\ request.conversation_history = MixedHistory
    /\ messages[3] = Message("user", "", PyStr(<<>>))
    /\ messages[5] = Message("assistant", "", PyStr(<<>>))
    /\ messages[7] = Message("user", "", PyStr(<<"42">>))
    /\ messages[8] = Message("user", "", PyStr(<<"True">>))

\* C21: whatever the entries of the history are, the first one included,
\* identity detection and assembly do not raise: the turn does not end with
\* the critical-error result but goes on to the model call (or to the
\* bootstrap short-circuit).
C21_MalformedHistoryTolerated ==
    Resolved =>
        /\ result.narrative # MSG_CRITICAL
        /\ pc = "done" => result.narrative = MSG_WORLD_INIT

\* A returned triple is well-formed: a text, a JSON document, a text.
WellFormed(r) ==
    /\ r.narrative \in Seq(STRING)
    /\ r.game_data \in Seq(STRING)
    /\ json_loads(r.game_data).kind # "err"
    /\ r.agent_logs \in Seq(STRING)

\* C28: on every path get_response returns a triple of a narrative text, a
\* text that is valid JSON and an agent-log text.
C28_TripleWellFormed ==
    pc = "done" => WellFormed(result)

\* A turn that ran a tool and returned a structured payload that is not the
\* empty object, with the log of the tool.
C28_Witness ==
    /\ pc = "done"
    /\ tool_invocations >= 1
    /\ result.game_data = <<J_EVENT>>
    /\ result.agent_logs # <<>>
    /\ WellFormed(result)

\* C30: with no GUID heading the history, no identity field and an utterance
\* that is neither a GUID nor a labeled GUID, the active identity is the
\* fallback identifier and the specific snapshot of the prompt is the one
\* fetched under it.
C30_FallbackIdentity ==
    (/\ ~HeadGuid.some
     /\ ~HasField
     /\ ~guid_match(Utterance)
     /\ ~labeled_guid_match(Utterance))
    => (/\ user_guid = DEFAULT_USER_GUID
        /\ user_memory = SpecificFor(DEFAULT_USER_GUID)
        /\ pc = "loop" =>
              messages[1].content =
                  PyStr(system_prompt(SharedGlobal, SpecificFor(DEFAULT_USER_GUID))))

\* The text of the answer being decoded, and the place of its first delimiter.
AnswerText ==
    IF assistant_msg.some /\ assistant_msg.v.content.some
    THEN assistant_msg.v.content.v ELSE <<>>

AfterDelimiter == SubSeq(AnswerText, find(AnswerText, 1) + 1, Len(AnswerText))

\* C22: decoding any text, the empty and the absent one included, yields a
\* result, and the structured part is the empty object whenever the text has
\* no delimiter or what follows the delimiter is not JSON.
C22_DecodeTotal ==
    pc = "done" =>
        /\ WellFormed(result)
        /\ (\/ find(AnswerText, 1) = 0
            \/ json_loads(AfterDelimiter).kind = "err")
              => result.game_data = <<J_EMPTY>>

\* C23: decoding narrative + delimiter + json(structured) gives back exactly
\* the narrative and an object equal to the structured one.
C23_RoundTrip ==
    \A n \in NarrativesCodec, s \in ObjectsCodec :
        (pc = "done" /\ AnswerText = encode(n, s))
        => (/\ result.narrative = n
            /\ json_loads(result.game_data) = s)

\* ------------------------------------------------------------ discovery claims
\* The candidates in the order discovery processes them.
LoadOrder == BundledFiles \o ShareFiles("agents") \o ShareFiles("multi_agents")

\* The candidate loads when nothing else is going on: it is listed, it is an
\* agent file, and reading, executing and instantiating it succeed.
Loads(c) ==
    IF c.source = "bundled" THEN discovery_env.load[c.id] = "ok"
    ELSE /\ is_agent_file(c.file)
         /\ discovery_env.list[c.source] = "ok"
         /\ discovery_env.load[c.id] = "ok"

\* The last candidate in the order that loads and declares the name, "" when
\* there is none.
LastLoaded(name) ==
    LET at == {i \in 1..Len(LoadOrder) :
                  LoadOrder[i].name = name /\ Loads(LoadOrder[i])}
    IN  IF at = {} THEN ""
        ELSE LoadOrder[CHOOSE i \in at : \A j \in at : j <= i].id

\* C24: after discovery and registry construction the registry has, for every
\* declared name, one entry, the agent loaded last under that name in the
\* order bundled, 'agents' share, 'multi_agents' share, and no other entry.
C24_LastLoadedWins ==
    \A p \in Procs :
        loaders[p].pc = "returned" =>
            reload_agents(loaders[p].declared) = [n \in ToolNames |-> LastLoaded(n)]

\* The share's GameWorld replaced the bundled one, and the multi_agents
\* ContextMemory the one of the 'agents' share.
C24_Witness ==
    /\ loaders[1].pc = "returned"
    /\ \A c \in {"b1", "b2", "a1", "a2", "m1"} : discovery_env.load[c] = "ok"
    /\ reload_agents(loaders[1].declared) =
          [n \in ToolNames |-> CASE n = "GameWorld" -> "a2"
                                 [] n = "ContextMemory" -> "m1"
                                 [] OTHER -> "b2"]

\* C25: when the loading of a candidate raises, every candidate that loads
\* is still registered in the mapping discovery returns.
C25_FailureSkipsOnlyCandidate ==
    \A p \in Procs :
        loaders[p].pc = "returned" =>
            \A i \in 1..Len(LoadOrder) :
                Loads(LoadOrder[i]) =>
                    \E j \in i..Len(LoadOrder) :
                        /\ Loads(LoadOrder[j])
                        /\ LoadOrder[j].name = LoadOrder[i].name
                        /\ loaders[p].declared[LoadOrder[i].name] = LoadOrder[j].id

\* The first bundled module and the first file of the 'agents' share raised,
\* and the candidates after them are registered.
C25_Witness ==
    /\ loaders[1].pc = "returned"
    /\ discovery_env.load["b1"] = "raise"
    /\ discovery_env.load["a1"] = "exec_raise"
    /\ discovery_env.load["m1"] = "read_raise"
    /\ loaders[1].declared =
          [n \in ToolNames |-> CASE n = "GameWorld" -> "a2"
                                 [] n = "ContextMemory" -> ""
                                 [] OTHER -> "b2"]

\* C26: load_agents_from_folder never raises, whatever fails.
C26_DiscoveryNeverRaises ==
    \A p \in Procs : loaders[p].pc # "raised"

\* C27: when load_agents_from_folder returns, none of the scratch files it
\* wrote remains.
C27_ScratchRemoved ==
    \A p \in Procs :
        loaders[p].pc = "returned" => loaders[p].written \cap scratch = {}

\* C29: two discoveries that run at the same time do not interfere: the
\* scratch file a run is about to execute is there, and each run returns
\* the registry it returns when it runs alone.
C29_NoInterference ==
    \A p \in Procs :
        /\ loaders[p].pc = "exec" => temp_file(current(loaders[p])) \in scratch
        /\ loaders[p].pc = "returned" =>
              loaders[p].declared = [n \in ToolNames |-> LastLoaded(n)]

\* ------------------------------------------------------ tool invocations
\* The text get_response makes of what a tool returned (lines 518-521).
ResultText(r) == IF r = PyNone THEN MSG_AGENT_OK ELSE py_str(r)

\* The entry of the agent log for a tool and the text of its result.
LogEntry(name, text) == <<"Performed ", name, " and got result: ">> \o text

\* A step in which agent.perform returns.
ToolCompletes == pc = "invoke" /\ agent_result'.some

\* C31: a tool that returns None has succeeded: the function turn with the
\* fixed success text is appended, the log entry is recorded and the turn
\* goes on to the follow-up model call, not to an error result.
C31_NoneIsSuccess ==
    [][(ToolCompletes /\ agent_result' = Some(PyNone))
       => /\ messages' = Append(messages,
                                Message("function", agent_name, PyStr(MSG_AGENT_OK)))
          /\ agent_logs' = Append(agent_logs, LogEntry(agent_name, MSG_AGENT_OK))
          /\ pc' = "final"
          /\ result' = NoResult]_vars

C31_Witness ==
    /\ pc = "final"
    /\ agent_result = Some(PyNone)
    /\ messages[Len(messages)].content = PyStr(MSG_AGENT_OK)

\* C32: a completed tool invocation appends exactly one function turn (the
\* tool's name, its result as a string) to the messages and exactly one
\* entry to the agent log; every other step of the dispatch, a retry after a
\* failed model call included, leaves both as they are.
C32_ToolFrame ==
    [][/\ ToolCompletes
          => /\ messages' = Append(messages,
                    Message("function", agent_name,
                            PyStr(ResultText(agent_result'.v))))
             /\ agent_logs' = Append(agent_logs,
                    LogEntry(agent_name, ResultText(agent_result'.v)))
       /\ (~ToolCompletes /\ pc \in {"loop", "invoke", "final"})
          => /\ messages' = messages
             /\ agent_logs' = agent_logs]_vars

\* Two tools have completed, a later model call has failed and the turn is
\* retrying.
C32_Witness ==
    /\ pc = "loop"
    /\ failed_calls >= 1
    /\ Len(agent_logs) = 2
    /\ messages[Len(messages)].role = "function"
    /\ messages[Len(messages) - 1].role = "function"

\* The top-level arguments the model supplied with the selection in hand.
Supplied ==
    LET payload == assistant_msg.v.function_call.v.arguments
        parsed == IF payload.some THEN json_loads(strip(payload.v)) ELSE JsonErr
    IN  IF parsed.kind = "obj" THEN parsed.f ELSE EmptyMap

\* As stated: every supplied argument reaches the tool, '' for null and its
\* own value otherwise.
C33_ArgumentsStated ==
    pc = "invoke"
    => \A key \in DOMAIN Supplied :
          /\ key \in DOMAIN sanitized_parameters
          /\ sanitized_parameters[key] =
                IF Supplied[key].t = "null" THEN Str("") ELSE Supplied[key]

\* C33: every argument the model supplied reaches the tool: '' for null and
\* its own value otherwise, except user_guid for a tool of the identity list,
\* which is the active identity whatever the model supplied.
C33_Arguments ==
    pc = "invoke"
    => \A key \in DOMAIN Supplied :
          /\ key \in DOMAIN sanitized_parameters
          /\ sanitized_parameters[key] =
                IF key = "user_guid" /\ agent_name \in IDENTITY_AGENTS
                THEN Str(user_guid)
                ELSE IF Supplied[key].t = "null" THEN Str("") ELSE Supplied[key]

C33_Witness ==
    /\ pc = "invoke"
    /\ assistant_msg.v.function_call.v.arguments = Some(<<J_ARGS_NULL>>)
    /\ sanitized_parameters["action"] = Str("")

\* C34: whatever way the turn ends, the agent log it returns holds, in the
\* order of execution, one entry for each tool invocation that completed
\* during the turn.
C34_LogsReturned ==
    pc = "done" => result.agent_logs = join(agent_logs)

\* C35: keeping the last 20 entries does not change the identity the history
\* selects: when the supplied history is longer than 20 entries and its first
\* entry is a user turn that is a GUID G, the identity resolved is G.
C35_TruncationKeepsIdentity ==
    (/\ Resolved
     /\ HeadSignal
     /\ Len(request.conversation_history) > HistoryLimit)
    => user_guid = HeadGuid.v

\* C36: the active identity is the fallback identity or a string of the
\* 8-4-4-4-12 hexadecimal form, in every state.
C36_IdentityShape ==
    user_guid \in {DEFAULT_USER_GUID} \cup GuidShaped

\* ------------------------------------------------------------ agent claims
\* The fields of the world state the claims name.
WorldFields ==
    {"time_of_day", "day_count", "weather", "season", "active_events",
     "faction_standings", "world_threats", "world_stability"}

\* C39: after any sequence of GameWorld actions the stored world state is
\* absent or empty, or holds every field of the initial world state; and no
\* action writes the document and then fails.
C39_WorldStateWhole ==
    /\ \/ not(document.world_state)
       \/ WorldFields \subseteq DOMAIN document.world_state
    /\ ~(workers[1].wrote /\ workers[1].status = "raised")

\* C40: advance_time with h hours on a stored hour t sets the hour to
\* (t + h) mod 24 and adds floor((t + h) / 24) to the day count.
C40_AdvanceTime ==
    [][(/\ performed' = performed + 1
        /\ workers'[1].call = "advance_time"
        /\ {"time_of_day", "day_count"} \subseteq DOMAIN document.world_state)
       => LET t == document.world_state.time_of_day
              h == workers'[1].args.hours
          IN  /\ document'.world_state.time_of_day = (t + h) % 24
              /\ document'.world_state.day_count =
                    document.world_state.day_count + ((t + h) \div 24)]_vars

\* The saves that have finished, of every request.
Saves == {<<p, i>> \in Procs \X (1..MaxPerforms + 1) : i <= Len(workers[p].saved)}

\* C37: two invocations that run at the same time on one memory key lose no
\* update: every quest whose save has finished is among the active quests,
\* and the combat statistics count every finished update.
C37_NoLostUpdate ==
    /\ \A s \in Saves :
          workers[s[1]].saved[s[2]].kind = "quest"
          => \E j \in 1..Len(document.active_quests) :
                document.active_quests[j] = workers[s[1]].saved[s[2]].id
    /\ dict_get(document.combat_stats, "misses", 0) =
          Cardinality({s \in Saves :
                          workers[s[1]].saved[s[2]].combat_event = "miss"})

\* C38: what a perform of NPCDialogue changes is stored: disposition less 10
\* (not below 0) after 'threaten', plus 5 (not above 100) after 'compliment',
\* met_player true after 'greet', and interaction_count one more for an NPC
\* that was stored already.
C38_NPCChangesPersisted ==
    [][(performed' = performed + 1 /\ workers'[1].call = "NPCDialogue")
       => LET npc_name == workers'[1].args.npc_name
              player_action == workers'[1].args.player_action
              known == npc_name \in DOMAIN document.npcs
              before == IF known THEN document.npcs[npc_name] ELSE new_npc(npc_name)
              after == document'.npcs[npc_name]
          IN  /\ player_action = "threaten"
                 => after.disposition = max(0, before.disposition - 10)
              /\ player_action = "compliment"
                 => after.disposition = min(100, before.disposition + 5)
              /\ player_action = "greet" => after.met_player
              /\ known => after.interaction_count = before.interaction_count + 1]_vars

====
